---- MODULE Spec2Model ----
(***************************************************************************)
(* Streaming conversation engine of you-chat: the chat routes              *)
(* (start generation, regenerate, stop), the message and conversation     *)
(* routes (edit, delete, delete conversation, fork), the message store,    *)
(* the stream registry and the history reconstructor buildChatHistory.     *)
(*                                                                         *)
(* One action is one synchronous segment of a handler: from the point a    *)
(* request (or an awaited promise) is resumed to the next await.  Message  *)
(* contents are sequences of text fragments; string concatenation is \o.   *)
(* Rows with equal created_at are returned in insertion (rowid) order.     *)
(***************************************************************************)
EXTENDS Integers, Sequences, FiniteSets, TLC

\* ---------------------------------------------------------------- bounds
\* A run is explored within one budget of requests and environment events.
MaxReq == 2        \* generation requests (start + regenerate) accepted in a run
MaxEvents == 3     \* upstream events consumed in a run of a single attempt
ConcEvents == 1    \* upstream events consumed in a run of concurrent requests
MaxNow == 2        \* clock ticks in a run of a single attempt
HistNow == 1       \* clock ticks in a run with history mutations
MaxEdits == 1      \* edit-message / delete-message requests accepted in a run
MaxGone == 1       \* clients that go away in a run
MaxStops == 1      \* stop requests that find a registry entry in a run
MaxFails == 1      \* upstream failures in a run
TickMs == 1100     \* wall time that passes in one clock tick
MaxForks == 1      \* fork requests accepted in a run
MaxDrops == 1      \* delete-conversation requests accepted in a run
ThreadTurns == 3   \* complete turns of the conversation a thread run starts from
ForkTurns == 2     \* complete turns of the conversation a fork run starts from
MaxIds == 4        \* generated ids whose lexical order is drawn (2 * ForkTurns)
MaxList == 5       \* messages of a conversation given to buildChatHistory
ClockTickMs == 500 \* wall time that passes in one clock tick of a timing run
ClockTicks == 6    \* clock ticks in a timing run

\* The ids of a run are its first, second, ... result of generateId(); order(k)
\* is the place of the k-th of them in the lexical order of the id strings.
IdOrders(n) == {f \in [1..n -> 1..n] : \A i, j \in 1..n : f[i] = f[j] => i = j}

Creation == [k \in 1..MaxIds |-> k]

\* seed: complete turns the conversation holds when the run starts
Budget(reqs, events, ticks, edits, gone, stops, fails) ==
  [reqs |-> reqs, events |-> events, ticks |-> ticks, edits |-> edits,
   gone |-> gone, stops |-> stops, fails |-> fails,
   forks |-> 0, drops |-> 0, seed |-> 0, order |-> Creation, tick |-> TickMs]

\* one attempt in depth; concurrent requests; history mutations between requests
StreamBudget == Budget(1, MaxEvents, MaxNow, 0, MaxGone, MaxStops, MaxFails)
ConcurrentBudget == Budget(MaxReq, ConcEvents, 0, 0, 0, MaxStops, 0)
HistoryBudget == Budget(MaxReq, 0, HistNow, MaxEdits, 0, 0, 0)
\* a conversation with a thread: edit, delete, regenerate, delete-conversation
ThreadBudget ==
  [Budget(1, 0, 0, MaxEdits, 0, 0, 0) EXCEPT !.drops = MaxDrops, !.seed = ThreadTurns]
\* a conversation that is forked, under every lexical order of its message ids
ForkBudgets ==
  {[Budget(1, 0, 0, 0, 0, 0, 0) EXCEPT !.forks = MaxForks, !.seed = ForkTurns, !.order = f] :
     f \in IdOrders(MaxIds)}
\* one attempt that nothing disturbs, on a finer clock
ClockBudget == [Budget(1, MaxEvents, ClockTicks, 0, 0, 0, 0) EXCEPT !.tick = ClockTickMs]
Budgets == {StreamBudget, ConcurrentBudget, HistoryBudget, ThreadBudget} \cup ForkBudgets

\* ------------------------------------------------------- program constants
SAVE_INTERVAL_MS == 1000
MAX_STALE == 120

\* ------------------------------------------------------------ input sets
Users == {"u1", "u2", "u3"}                     \* authenticated users
WithCredentials == {"u1", "u3"}                  \* ... with a row of user_credentials
UserInputs == Users \cup {""}                    \* "": no authenticated user
SessionIds == {"s1", "s2"}                       \* "s2": created by a fork
SessionInputs == SessionIds \cup {"sX", ""}     \* "sX": no such row, "": missing
Queries == {<<"q">>}
QueryInputs == Queries \cup {<< >>}              \* << >>: missing / empty
EditContents == {<<"e">>}
Titles == {"T", ""}                              \* cleaned title texts ("" : empty)
ParaSep == <<"\n\n">>

VARIABLES
  now,           \* clock, in ticks of TickMs
  creds,         \* user_credentials: user -> has a row
  sessions,      \* chat_sessions: id -> row
  messages,      \* messages table, in rowid order
  activeStreams, \* stream registry: session id -> request owning the controller (0: none)
  req,           \* generation requests: request -> handler state
  nreq,          \* requests accepted so far
  nextId,        \* next generateId() result
  nextUuid,      \* next crypto.randomUUID() result
  remoteLog,     \* calls made to the remote engine
  hist,          \* per request: record of what the attempt did
  budget,        \* requests and environment events the run may take, by kind
  used,          \* environment events so far in the run, by kind
  client,        \* the browser: last rejected reply, useChat hook, page poller
  upstream       \* one call of streamChat: response chunks to come, buffer, events yielded

vars == <<now, creds, sessions, messages, activeStreams, req, nreq, nextId,
          nextUuid, remoteLog, hist, budget, used, client, upstream>>

ReqIds == 1..MaxReq

\* ----------------------------------------------------------- time
DateNow == now * budget.tick
UnixNow == DateNow \div 1000

\* ----------------------------------------------------------- db.ts
Row(id, sid, role, content, t, status) ==
  [id |-> id, sid |-> sid, role |-> role, content |-> content,
   created_at |-> t, status |-> status]

RECURSIVE InsertSorted(_, _)
InsertSorted(sorted, row) ==
  IF sorted = << >> THEN <<row>>
  ELSE IF Head(sorted).created_at <= row.created_at
       THEN <<Head(sorted)>> \o InsertSorted(Tail(sorted), row)
       ELSE <<row>> \o sorted

RECURSIVE SortByCreatedAt(_)
SortByCreatedAt(rows) ==
  IF rows = << >> THEN << >>
  ELSE InsertSorted(SortByCreatedAt(SubSeq(rows, 1, Len(rows) - 1)), rows[Len(rows)])

InSession(msgs, sid) == SelectSeq(msgs, LAMBDA m : m.sid = sid)

getMessages(msgs, sid) == SortByCreatedAt(InSession(msgs, sid))

HasMessage(msgs, mid, sid) == \E i \in 1..Len(msgs) : msgs[i].id = mid /\ msgs[i].sid = sid

getMessage(msgs, mid, sid) ==
  CHOOSE m \in {msgs[i] : i \in 1..Len(msgs)} : m.id = mid /\ m.sid = sid

HasMessageId(msgs, mid) == \E i \in 1..Len(msgs) : msgs[i].id = mid

MessageById(msgs, mid) == CHOOSE m \in {msgs[i] : i \in 1..Len(msgs)} : m.id = mid

createMessage(msgs, id, sid, role, content, t) ==
  Append(msgs, Row(id, sid, role, content, t, "complete"))

\* Mutant: the row of a generation is inserted with the default status.
createStreamingMessage_Complete(msgs, id, sid, role, t) ==
  Append(msgs, Row(id, sid, role, << >>, t, "complete"))

createStreamingMessage(msgs, id, sid, role, t) ==
  Append(msgs, Row(id, sid, role, << >>, t, "streaming"))

updateStreamingContent(msgs, mid, content) ==
  [i \in 1..Len(msgs) |->
     IF msgs[i].id = mid THEN [msgs[i] EXCEPT !.content = content] ELSE msgs[i]]

\* Mutant: the terminal write stores the content and leaves the status.
completeStreamingMessage_ContentOnly(msgs, mid, content) ==
  [i \in 1..Len(msgs) |->
     IF msgs[i].id = mid THEN [msgs[i] EXCEPT !.content = content] ELSE msgs[i]]

\* Mutant: the terminal write sets the status and leaves the content.
completeStreamingMessage_StatusOnly(msgs, mid, content) ==
  [i \in 1..Len(msgs) |->
     IF msgs[i].id = mid THEN [msgs[i] EXCEPT !.status = "complete"] ELSE msgs[i]]

completeStreamingMessage(msgs, mid, content) ==
  [i \in 1..Len(msgs) |->
     IF msgs[i].id = mid
     THEN [msgs[i] EXCEPT !.content = content, !.status = "complete"]
     ELSE msgs[i]]

updateMessage(msgs, mid, sid, content) ==
  [i \in 1..Len(msgs) |->
     IF msgs[i].id = mid /\ msgs[i].sid = sid
     THEN [msgs[i] EXCEPT !.content = content] ELSE msgs[i]]

deleteMessage(msgs, mid, sid) ==
  SelectSeq(msgs, LAMBDA m : ~(m.id = mid /\ m.sid = sid))

deleteMessagesAfter(msgs, mid, sid) ==
  IF ~HasMessage(msgs, mid, sid) THEN msgs
  ELSE LET t == getMessage(msgs, mid, sid).created_at
       IN SelectSeq(msgs, LAMBDA m :
            ~(m.sid = sid /\ (m.created_at > t \/ (m.created_at = t /\ m.id # mid))))

\* The place of id k in the lexical order of the id strings.
IdOrder(k) == IF k \in DOMAIN budget.order THEN budget.order[k] ELSE k

\* Mutant: a new conversation is given a thread handle.
NewSession_WithHandle(u, title, agent) ==
  [exists |-> TRUE, owner |-> u, title |-> title, agent |-> agent, you_chat_id |-> 1]

\* The row createChatSession inserts: the you_chat_id column is left NULL.
NewSession(u, title, agent) ==
  [exists |-> TRUE, owner |-> u, title |-> title, agent |-> agent, you_chat_id |-> 0]

createChatSession(sess, id, u, title, agent) ==
  [sess EXCEPT ![id] = NewSession(u, title, agent)]

\* DELETE FROM chat_sessions WHERE id = ? AND user_id = ?
deleteChatSession(sess, sid, u) ==
  IF sid \in SessionIds /\ sess[sid].exists /\ sess[sid].owner = u
  THEN [sess EXCEPT ![sid] =
          [exists |-> FALSE, owner |-> "", title |-> "", agent |-> "", you_chat_id |-> 0]]
  ELSE sess

\* FOREIGN KEY (session_id) REFERENCES chat_sessions(id) ON DELETE CASCADE
Cascade(msgs, sess) == SelectSeq(msgs, LAMBDA m : sess[m.sid].exists)

\* `${source.title} (fork)`
ForkTitle(title) ==
  CASE title = "untitled" -> "untitled (fork)"
    [] title = "T" -> "T (fork)"
    [] OTHER -> " (fork)"

\* forkSession: the rows selected for the copy, in the order of the query.
messagesToCopy(msgs, sid, upTo) ==
  LET t == getMessage(msgs, upTo, sid).created_at IN
  SortByCreatedAt(SelectSeq(msgs, LAMBDA m :
    /\ m.sid = sid
    /\ (m.created_at < t \/ (m.created_at = t /\ IdOrder(m.id) <= IdOrder(upTo)))))

\* forkSession: the rows inserted for the new conversation.
Copies(rows, newSid, firstId) ==
  [i \in 1..Len(rows) |->
     Row(firstId + i - 1, newSid, rows[i].role, rows[i].content, rows[i].created_at,
         "complete")]

\* Mutant: the row is looked up by its id alone.
SessionOf_AnyUser(sess, sid, u) == sid \in SessionIds /\ sess[sid].exists

\* getChatSession(id, userId): WHERE id = ? AND user_id = ?
SessionOf(sess, sid, u) == sid \in SessionIds /\ sess[sid].exists /\ sess[sid].owner = u

getSessionYouChatId(sess, sid) == sess[sid].you_chat_id

updateSessionYouChatId(sess, sid, h) ==
  IF sess[sid].exists THEN [sess EXCEPT ![sid].you_chat_id = h] ELSE sess

updateChatSessionTitle(sess, sid, u, title) ==
  IF sess[sid].exists /\ sess[sid].owner = u /\ title # ""
  THEN [sess EXCEPT ![sid].title = title] ELSE sess

\* ----------------------------------------------------------- chat.ts helpers
\* Mutant: the fields of a pair are exchanged.
Pair_Swapped(q, a) == [question |-> a, answer |-> q]

\* { question: pendingQuestion, answer: msg.content }
Pair(q, a) == [question |-> q, answer |-> a]

\* Mutant: a closed pair is put in front of the pairs instead of behind them.
RECURSIVE BuildFrom_Prepend(_, _, _, _, _)
BuildFrom_Prepend(msgs, i, pairs, pending, pendingQuestion) ==
  IF i > Len(msgs) THEN pairs
  ELSE IF msgs[i].role = "user"
       THEN IF pending
            THEN BuildFrom_Prepend(msgs, i + 1, pairs, TRUE,
                                   pendingQuestion \o ParaSep \o msgs[i].content)
            ELSE BuildFrom_Prepend(msgs, i + 1, pairs, TRUE, msgs[i].content)
       ELSE IF msgs[i].role = "assistant" /\ pending
            THEN BuildFrom_Prepend(msgs, i + 1,
                                   <<Pair(pendingQuestion, msgs[i].content)>> \o pairs,
                                   FALSE, << >>)
            ELSE BuildFrom_Prepend(msgs, i + 1, pairs, pending, pendingQuestion)

RECURSIVE BuildFrom(_, _, _, _, _)
BuildFrom(msgs, i, pairs, pending, pendingQuestion) ==
  IF i > Len(msgs) THEN pairs
  ELSE IF msgs[i].role = "user"
       THEN IF pending
            THEN BuildFrom(msgs, i + 1, pairs, TRUE,
                           pendingQuestion \o ParaSep \o msgs[i].content)
            ELSE BuildFrom(msgs, i + 1, pairs, TRUE, msgs[i].content)
       ELSE IF msgs[i].role = "assistant" /\ pending
            THEN BuildFrom(msgs, i + 1,
                           Append(pairs, Pair(pendingQuestion, msgs[i].content)),
                           FALSE, << >>)
            ELSE BuildFrom(msgs, i + 1, pairs, pending, pendingQuestion)

\* Mutant: the pending question starts as the empty string instead of null.
buildChatHistory_EmptyPending(msgs) == BuildFrom(msgs, 1, << >>, TRUE, << >>)

\* let pendingQuestion = null; for (const msg of messages) ...; return pairs
buildChatHistory(msgs) == BuildFrom(msgs, 1, << >>, FALSE, << >>)


\* ----------------------------------------------------------- push channel
Ev(type, userMessageId, messageId, text) ==
  [type |-> type, userMessageId |-> userMessageId, messageId |-> messageId,
   text |-> text]

\* Mutant: the first event of a send is built like that of a regenerate.
IdsEvent_NoUser(userMsgId, asstMsgId) == Ev("ids", 0, asstMsgId, "")

\* { userMessageId, assistantMessageId }
IdsEvent(userMsgId, asstMsgId) == Ev("ids", userMsgId, asstMsgId, "")

\* stream.writeSSE: the write is attempted at the call; it is rejected when the
\* client is gone, and the rejection is seen when the await resumes.
writeSSE(rec, ev) ==
  [rec EXCEPT !.sse = Append(@, [ev |-> ev, ok |-> rec.open]), !.lastOk = rec.open]

Delivered(rec) == SelectSeq(rec.sse, LAMBDA w : w.ok)

\* ----------------------------------------------------------- remote engine
\* Mutant: the default pastChatLength of streamChat is sent.
RemoteStream_DefaultPast(r, chatId, query, chatHistory, pastChatLength) ==
  [op |-> "stream", by |-> r, chatId |-> chatId, query |-> query,
   chat |-> chatHistory, pastChatLength |-> 0]

RemoteStream(r, chatId, query, chatHistory, pastChatLength) ==
  [op |-> "stream", by |-> r, chatId |-> chatId, query |-> query,
   chat |-> chatHistory, pastChatLength |-> pastChatLength]

RemoteDelete(r, chatId) ==
  [op |-> "delete", by |-> r, chatId |-> chatId, query |-> << >>,
   chat |-> << >>, pastChatLength |-> 0]

TitlePrompt(message) == <<"titlePrompt">> \o message

\* The k-th token the upstream yields in one attempt.
TokenAt(k) == IF k % 2 = 1 THEN "a" ELSE "b"

UpstreamEventTypes == {"thinking", "token"}

\* ----------------------------------------------------------- initial state
NoReq ==
  [kind |-> "none", pc |-> "none", sid |-> "", user |-> "", userMsgId |-> 0,
   asstMsgId |-> 0, chatId |-> 0, query |-> << >>, chatHistory |-> << >>,
   isFirstMessage |-> FALSE, sessionTitle |-> "", fullResponse |-> << >>,
   lastSaveTime |-> 0, titleChatId |-> 0, generatedTitle |-> "undefined",
   open |-> TRUE, aborted |-> FALSE, lastOk |-> TRUE, sse |-> << >>]

NoHist ==
  [completions |-> << >>,     \* contents of the terminal writes, in order
   snapshots |-> 0,           \* snapshot writes
   yielded |-> << >>,         \* token texts the upstream yielded to the loop
   yieldedLive |-> << >>,     \* ... those yielded while no stop was signalled
   stopSignalled |-> FALSE,   \* stop signalled while the loop was consuming
   textAtStop |-> << >>,      \* fullResponse when the stop was signalled
   upstreamFailed |-> FALSE,  \* the upstream threw during the attempt
   teardownFailed |-> FALSE,  \* deleteThread of the old thread threw
   loopEntered |-> FALSE,     \* streamAndSave was called
   events |-> 0,              \* upstream events that reached the loop
   tokenTimes |-> << >>,      \* Date.now() at each token appended to fullResponse
   saveTimes |-> << >>,       \* Date.now() at the start of the loop and at each snapshot
   alone |-> FALSE]           \* no other request was in flight when streamChat was called

\* The browser before the page has done anything: no reply seen, the hook
\* idle (pc "idle"), no poller running (pc "off").
NoHook ==
  [pc |-> "idle", assistantMsgId |-> 0, fullContent |-> << >>,
   streamCompleted |-> FALSE, cursor |-> 0, lastContent |-> << >>, polled |-> FALSE,
   doneCalls |-> << >>, errors |-> << >>, titles |-> << >>,
   stop |-> "none",           \* stopGeneration: "none", "requested", "aborted", "returned"
   doneWhen |-> << >>]        \* stop at each call of onDone

NoPoller ==
  [pc |-> "off", user |-> "", sessionId |-> "", messageId |-> 0, lastContent |-> << >>,
   staleCount |-> 0, local |-> [content |-> << >>, status |-> ""]]

NoClient ==
  [reply |-> [op |-> "none", status |-> 0], dist |-> FALSE, hook |-> NoHook,
   poller |-> NoPoller]

\* No call of streamChat under observation.
NoUpstream ==
  [pc |-> "none", frames |-> << >>, chunks |-> << >>, buffer |-> << >>,
   lastEvent |-> << >>, out |-> << >>]

\* No row of chat_sessions.
NoSession ==
  [exists |-> FALSE, owner |-> "", title |-> "", agent |-> "", you_chat_id |-> 0]

\* Questions and answers of the turns a run starts from.
SeedQ == <<"q1", "q2", "q3", "q4", "q5">>
SeedA == <<"a1", "a2", "a3", "a4", "a5">>

\* n complete turns of "s1", one per second, the two rows of a turn written
\* in the same second by the request that made them.
RECURSIVE SeedMessages(_)
SeedMessages(n) ==
  IF n = 0 THEN << >>
  ELSE SeedMessages(n - 1)
         \o <<Row(2 * n - 1, "s1", "user", <<SeedQ[n]>>, n - 1, "complete"),
              Row(2 * n, "s1", "assistant", <<SeedA[n]>>, n - 1, "complete")>>

\* "s1" as createChatSession leaves it, or as n turns leave it: titled by its
\* first turn and holding the handle minted by it.
SeedSession(n) ==
  [exists |-> TRUE, owner |-> "u1", title |-> IF n = 0 THEN "untitled" ELSE "T",
   agent |-> "express", you_chat_id |-> IF n = 0 THEN 0 ELSE 1]

Init ==
  /\ budget \in Budgets
  /\ now = budget.seed
  /\ creds = [u \in Users |-> u \in WithCredentials]
  /\ sessions = [s \in SessionIds |->
                   IF s = "s1" THEN SeedSession(budget.seed) ELSE NoSession]
  /\ messages = SeedMessages(budget.seed)
  /\ activeStreams = [s \in SessionIds |-> 0]
  /\ req = [r \in ReqIds |-> NoReq]
  /\ nreq = 0
  /\ nextId = 2 * budget.seed + 1
  /\ nextUuid = IF budget.seed = 0 THEN 1 ELSE 2
  /\ remoteLog = << >>
  /\ hist = [r \in ReqIds |-> NoHist]
  /\ used = [events |-> 0, edits |-> 0, gone |-> 0, stops |-> 0, fails |-> 0,
             forks |-> 0, drops |-> 0]
  /\ client = NoClient
  /\ upstream = NoUpstream

\* ----------------------------------------------------------- chat.post("/stop")
StopStatus(u, s) == IF s = "" THEN 400 ELSE 200     \* 200: { stopped: true }

\* Mutant: the controller is aborted but its registry entry is kept.
Stop_KeepEntry(u, s) ==
  /\ StopStatus(u, s) = 200
  /\ s \in SessionIds /\ activeStreams[s] # 0
  /\ used.stops < budget.stops
  /\ used' = [used EXCEPT !.stops = @ + 1]
  /\ req' = [req EXCEPT ![activeStreams[s]].aborted = TRUE]
  /\ UNCHANGED <<upstream, client, now, creds, sessions, messages, activeStreams, nreq, nextId,
                 nextUuid, remoteLog, hist, budget>>

Stop(u, s) ==
  /\ StopStatus(u, s) = 200
  /\ IF s \in SessionIds /\ activeStreams[s] # 0
     THEN LET c == activeStreams[s] IN
          /\ used.stops < budget.stops
          /\ used' = [used EXCEPT !.stops = @ + 1]
          /\ req' = [req EXCEPT ![c].aborted = TRUE]
          /\ activeStreams' = [activeStreams EXCEPT ![s] = 0]
          /\ hist' = IF req[c].pc = "awaitUpstream" /\ ~req[c].aborted
                     THEN [hist EXCEPT ![c].stopSignalled = TRUE,
                                       ![c].textAtStop = req[c].fullResponse]
                     ELSE hist
     ELSE UNCHANGED <<activeStreams, req, hist, used>>
  /\ UNCHANGED <<upstream, client, now, creds, sessions, messages, nreq, nextId, nextUuid,
                 remoteLog, budget>>

\* ----------------------------------------------------------- chat.post("/")
SendStatus(u, s, q) ==
  IF u = "" THEN 401
  ELSE IF ~creds[u] THEN 403
  ELSE IF s = "" \/ q = << >> THEN 400
  ELSE IF ~SessionOf(sessions, s, u) THEN 404
  ELSE 200

\* Mutant: the stored value is used as it is.
GetOrCreate_Stored(old, fresh) == old

\* let youChatId = getSessionYouChatId(sessionId); if (!youChatId) youChatId = randomUUID()
GetOrCreate(old, fresh) == IF old = 0 THEN fresh ELSE old

StartSend(u, s, q) ==
  /\ nreq < budget.reqs
  /\ SendStatus(u, s, q) = 200
  /\ LET r == nreq + 1
         existingMessages == getMessages(messages, s)
         userMsgId == nextId
         withUser == createMessage(messages, userMsgId, s, "user", q, UnixNow)
         allMessages == getMessages(withUser, s)
         historyMessages == SubSeq(allMessages, 1, Len(allMessages) - 1)
         chatHistory == buildChatHistory(historyMessages)
         old == getSessionYouChatId(sessions, s)
         youChatId == GetOrCreate(old, nextUuid)
         asstMsgId == nextId + 1
         rec == [NoReq EXCEPT !.kind = "send", !.pc = "awaitIds", !.sid = s,
                   !.user = u, !.userMsgId = userMsgId, !.asstMsgId = asstMsgId,
                   !.chatId = youChatId, !.query = q, !.chatHistory = chatHistory,
                   !.isFirstMessage = (Len(existingMessages) = 0),
                   !.sessionTitle = sessions[s].title]
     IN /\ messages' = createStreamingMessage(withUser, asstMsgId, s, "assistant", UnixNow)
        /\ nextId' = nextId + 2
        /\ sessions' = IF old = 0 THEN updateSessionYouChatId(sessions, s, youChatId)
                       ELSE sessions
        /\ nextUuid' = IF old = 0 THEN nextUuid + 1 ELSE nextUuid
        /\ activeStreams' = [activeStreams EXCEPT ![s] = r]
        /\ req' = [req EXCEPT ![r] = writeSSE(rec, IdsEvent(userMsgId, asstMsgId))]
        /\ nreq' = r
  /\ UNCHANGED <<upstream, client, now, creds, remoteLog, hist, used, budget>>


\* ----------------------------------------------------------- request body
\* Mutant: the catch block reports the end of the stream as done.
CatchError_Done(rec) ==
  [writeSSE(rec, Ev("done", 0, rec.asstMsgId, rec.generatedTitle)) EXCEPT !.pc = "awaitErr"]

\* catch (error): the error event is written, whatever the state of the channel.
CatchError(rec) ==
  [writeSSE(rec, Ev("error", 0, 0, "error")) EXCEPT !.pc = "awaitErr"]

\* await writeSSE({userMessageId, assistantMessageId}) resumes.
AfterIds(r) ==
  /\ req[r].pc = "awaitIds"
  /\ req' = [req EXCEPT ![r] =
               IF req[r].lastOk
               THEN [writeSSE(req[r], Ev("thinking", 0, 0, "Thinking"))
                       EXCEPT !.pc = "awaitThinking"]
               ELSE CatchError(req[r])]
  /\ UNCHANGED <<upstream, client, now, creds, sessions, messages, activeStreams, nreq, nextId,
                 nextUuid, remoteLog, hist, used, budget>>

\* await writeSSE({thinking}) resumes; streamAndSave is entered and streamChat
\* issues its request.
AfterThinking(r) ==
  /\ req[r].pc = "awaitThinking"
  /\ IF req[r].lastOk
     THEN /\ req' = [req EXCEPT ![r].pc = "awaitUpstream",
                                ![r].fullResponse = << >>,
                                ![r].lastSaveTime = DateNow]
          /\ remoteLog' = Append(remoteLog,
                 RemoteStream(r, req[r].chatId, req[r].query, req[r].chatHistory,
                              Len(req[r].chatHistory)))
          /\ hist' = [hist EXCEPT ![r].loopEntered = TRUE,
                                  ![r].saveTimes = <<DateNow>>,
                                  ![r].alone = \A o \in ReqIds \ {r} :
                                                 req[o].pc \in {"none", "exited"}]
     ELSE /\ req' = [req EXCEPT ![r] = CatchError(req[r])]
          /\ UNCHANGED <<remoteLog, hist>>
  /\ UNCHANGED <<upstream, client, now, creds, sessions, messages, activeStreams, nreq, nextId,
                 nextUuid, used, budget>>

\* streamAndSave's finally, then its return into the handler: the title call of
\* a first message, or the done event.
LoopExit(r, h) ==
  LET rec == req[r] IN
  /\ messages' = completeStreamingMessage(messages, rec.asstMsgId, rec.fullResponse)
  /\ hist' = [hist EXCEPT ![r] = [h EXCEPT !.completions = Append(@, rec.fullResponse)]]
  /\ IF rec.kind = "send" /\ rec.isFirstMessage /\ rec.sessionTitle = "untitled"
     THEN /\ req' = [req EXCEPT ![r].pc = "awaitTitle", ![r].titleChatId = nextUuid]
          /\ nextUuid' = nextUuid + 1
          /\ remoteLog' = Append(remoteLog,
                 RemoteStream(r, nextUuid, TitlePrompt(rec.query), << >>, 0))
     ELSE /\ req' = [req EXCEPT ![r] =
                       [writeSSE(rec, Ev("done", 0, rec.asstMsgId, rec.generatedTitle))
                          EXCEPT !.pc = "awaitDone"]]
          /\ UNCHANGED <<nextUuid, remoteLog>>

Yielded(h, ev, aborted) ==
  IF ev.type = "token"
  THEN [h EXCEPT !.events = @ + 1,
                 !.yielded = Append(@, ev.text),
                 !.yieldedLive = IF aborted THEN @ ELSE Append(@, ev.text),
                 !.tokenTimes = IF aborted THEN @ ELSE Append(@, DateNow)]
  ELSE [h EXCEPT !.events = @ + 1]

\* Mutant: the fragment is put in front of the text.
Accumulate_Prepend(fullResponse, text) == <<text>> \o fullResponse

\* fullResponse += event.text
Accumulate(fullResponse, text) == Append(fullResponse, text)

\* Mutant: the abort signal is never looked at.
ShouldBreak_Never(rec) == FALSE

\* if (abortSignal?.aborted) break
ShouldBreak(rec) == rec.aborted

\* Mutant: a token that arrives exactly one interval after the last save is written.
ShouldSave_AtLeast(rec) == DateNow - rec.lastSaveTime >= SAVE_INTERVAL_MS

\* if (now - lastSaveTime > SAVE_INTERVAL_MS)
ShouldSave(rec) == DateNow - rec.lastSaveTime > SAVE_INTERVAL_MS

\* One event of streamChat reaches the loop body of streamAndSave.
UpstreamEvent(r, type) ==
  /\ req[r].pc = "awaitUpstream"
  /\ used.events < budget.events
  /\ used' = [used EXCEPT !.events = @ + 1]
  /\ LET rec == req[r]
         ev == [type |-> type,
                text |-> IF type = "token" THEN TokenAt(Len(hist[r].yielded) + 1)
                         ELSE "Thinking"]
         h == Yielded(hist[r], ev, rec.aborted)
         text == IF ev.type = "token" THEN Accumulate(rec.fullResponse, ev.text)
                 ELSE rec.fullResponse
         save == ev.type = "token" /\ ShouldSave(rec)
         rec1 == [rec EXCEPT !.fullResponse = text,
                             !.lastSaveTime = IF save THEN DateNow ELSE @]
     IN IF ShouldBreak(rec)
        THEN LoopExit(r, h)
        ELSE /\ messages' = IF save
                            THEN updateStreamingContent(messages, rec.asstMsgId, text)
                            ELSE messages
             /\ hist' = [hist EXCEPT ![r] =
                           [h EXCEPT !.snapshots = IF save THEN @ + 1 ELSE @,
                                     !.saveTimes = IF save THEN Append(@, DateNow) ELSE @]]
             /\ req' = [req EXCEPT ![r] =
                          writeSSE(rec1, Ev(IF ev.type = "token" THEN "delta" ELSE "thinking",
                                            0, 0, ev.text))]
             /\ UNCHANGED <<nextUuid, remoteLog>>
  /\ UNCHANGED <<upstream, client, now, creds, sessions, activeStreams, nreq, nextId, budget>>

\* The upstream ends: its done event, or the end of the response body.
UpstreamEnd(r) ==
  /\ req[r].pc = "awaitUpstream"
  /\ LoopExit(r, hist[r])
  /\ UNCHANGED <<upstream, client, now, creds, sessions, activeStreams, nreq, nextId, used, budget>>

\* Mutant: the terminal write sits after the loop instead of in a finally.
UpstreamFail_NoFinally(r) ==
  /\ req[r].pc = "awaitUpstream"
  /\ used.fails < budget.fails
  /\ used' = [used EXCEPT !.fails = @ + 1]
  /\ hist' = [hist EXCEPT ![r].upstreamFailed = TRUE]
  /\ req' = [req EXCEPT ![r] = CatchError(req[r])]
  /\ UNCHANGED <<upstream, client, now, creds, sessions, messages, activeStreams, nreq, nextId,
                 nextUuid, remoteLog, budget>>

\* The upstream throws (non-2xx response, no body, or a failed read): finally,
\* then the handler's catch.
UpstreamFail(r) ==
  /\ req[r].pc = "awaitUpstream"
  /\ used.fails < budget.fails
  /\ used' = [used EXCEPT !.fails = @ + 1]
  /\ messages' = completeStreamingMessage(messages, req[r].asstMsgId, req[r].fullResponse)
  /\ hist' = [hist EXCEPT ![r].completions = Append(@, req[r].fullResponse),
                          ![r].upstreamFailed = TRUE]
  /\ req' = [req EXCEPT ![r] = CatchError(req[r])]
  /\ UNCHANGED <<upstream, client, now, creds, sessions, activeStreams, nreq, nextId, nextUuid,
                 remoteLog, budget>>

\* Mutant: the cleanup names the thread of the conversation.
CleanupTarget_Own(rec) == rec.chatId

\* await deleteThread(titleChatId, ...)
CleanupTarget(rec) == rec.titleChatId

\* callChat returns the raw title (cleaned to t) or throws; then deleteThread
\* of the title thread is called.
TitleResult(r, ok, t) ==
  /\ req[r].pc = "awaitTitle"
  /\ sessions' = IF ok THEN updateChatSessionTitle(sessions, req[r].sid, req[r].user, t)
                 ELSE sessions
  /\ req' = [req EXCEPT ![r].pc = "awaitTitleCleanup",
                        ![r].generatedTitle = IF ok THEN t ELSE @]
  /\ remoteLog' = Append(remoteLog, RemoteDelete(r, CleanupTarget(req[r])))
  /\ UNCHANGED <<upstream, client, now, creds, messages, activeStreams, nreq, nextId, nextUuid,
                 hist, used, budget>>

\* deleteThread of the title thread returns or throws (logged); done is written.
AfterTitleCleanup(r) ==
  /\ req[r].pc = "awaitTitleCleanup"
  /\ req' = [req EXCEPT ![r] =
               [writeSSE(req[r], Ev("done", 0, req[r].asstMsgId, req[r].generatedTitle))
                  EXCEPT !.pc = "awaitDone"]]
  /\ UNCHANGED <<upstream, client, now, creds, sessions, messages, activeStreams, nreq, nextId,
                 nextUuid, remoteLog, hist, used, budget>>

\* finally { activeStreams.delete(sessionId) }
Finally(rec) == [rec EXCEPT !.pc = "exited"]

\* await writeSSE({done}) resumes.
AfterDone(r) ==
  /\ req[r].pc = "awaitDone"
  /\ IF req[r].lastOk
     THEN /\ req' = [req EXCEPT ![r] = Finally(req[r])]
          /\ activeStreams' = [activeStreams EXCEPT ![req[r].sid] = 0]
     ELSE /\ req' = [req EXCEPT ![r] = CatchError(req[r])]
          /\ UNCHANGED activeStreams
  /\ UNCHANGED <<upstream, client, now, creds, sessions, messages, nreq, nextId, nextUuid,
                 remoteLog, hist, used, budget>>

\* await writeSSE({error}) resumes (a rejection is swallowed).
AfterErr(r) ==
  /\ req[r].pc = "awaitErr"
  /\ req' = [req EXCEPT ![r] = Finally(req[r])]
  /\ activeStreams' = [activeStreams EXCEPT ![req[r].sid] = 0]
  /\ UNCHANGED <<upstream, client, now, creds, sessions, messages, nreq, nextId, nextUuid,
                 remoteLog, hist, used, budget>>

\* The client of request r goes away (refresh, closed tab, lost connection).
ClientGone(r) ==
  /\ req[r].pc \notin {"none", "exited"}
  /\ req[r].open
  /\ used.gone < budget.gone
  /\ used' = [used EXCEPT !.gone = @ + 1]
  /\ req' = [req EXCEPT ![r].open = FALSE]
  /\ UNCHANGED <<upstream, client, now, creds, sessions, messages, activeStreams, nreq, nextId,
                 nextUuid, remoteLog, hist, budget>>

Tick ==
  /\ now < budget.seed + budget.ticks
  /\ now' = now + 1
  /\ UNCHANGED <<upstream, client, creds, sessions, messages, activeStreams, req, nreq, nextId,
                 nextUuid, remoteLog, hist, used, budget>>


\* ----------------------------------------------------------- chat.post("/regenerate")
RegenStatus(u, s, m) ==
  IF u = "" THEN 401
  ELSE IF ~creds[u] THEN 403
  ELSE IF s = "" \/ m = 0 THEN 400
  ELSE IF ~SessionOf(sessions, s, u) THEN 404
  ELSE IF ~HasMessage(messages, m, s) THEN 404
  ELSE 200


LastUserContent(history) ==
  LET users == SelectSeq(history, LAMBDA x : x.role = "user")
  IN IF users = << >> THEN << >> ELSE users[Len(users)].content

\* From the new thread id to the first event: the segment of the regenerate
\* handler that follows the teardown of the old thread.
RegenRebase(r, rec, msgs) ==
  LET s == rec.sid
      newYouChatId == nextUuid
      history == getMessages(msgs, s)
      asstMsgId == nextId
      rec1 == [rec EXCEPT !.pc = "awaitIds", !.chatId = newYouChatId,
                          !.query = LastUserContent(history),
                          !.chatHistory = buildChatHistory(history),
                          !.asstMsgId = asstMsgId]
  IN /\ sessions' = updateSessionYouChatId(sessions, s, newYouChatId)
     /\ nextUuid' = nextUuid + 1
     /\ messages' = createStreamingMessage(msgs, asstMsgId, s, "assistant", UnixNow)
     /\ nextId' = nextId + 1
     /\ activeStreams' = [activeStreams EXCEPT ![s] = r]
     /\ req' = [req EXCEPT ![r] = writeSSE(rec1, Ev("ids", 0, asstMsgId, ""))]

StartRegen(u, s, m) ==
  /\ nreq < budget.reqs
  /\ RegenStatus(u, s, m) = 200
  /\ LET r == nreq + 1
         rec == [NoReq EXCEPT !.kind = "regen", !.pc = "awaitTeardown", !.sid = s,
                              !.user = u]
         truncated == deleteMessagesAfter(messages, m, s)
         oldYouChatId == getSessionYouChatId(sessions, s)
     IN /\ nreq' = r
        /\ IF oldYouChatId # 0
           THEN /\ messages' = truncated
                /\ remoteLog' = Append(remoteLog, RemoteDelete(r, oldYouChatId))
                /\ req' = [req EXCEPT ![r] = rec]
                /\ UNCHANGED <<sessions, nextUuid, nextId, activeStreams>>
           ELSE /\ RegenRebase(r, rec, truncated)
                /\ UNCHANGED remoteLog
  /\ UNCHANGED <<upstream, client, now, creds, hist, used, budget>>

\* Mutant: a teardown that throws ends the request.
Proceeds_OnlyOk(ok) == ok

\* try { await deleteThread(oldYouChatId, ...) } catch (e) { console.error(...) }
Proceeds(ok) == TRUE

\* deleteThread of the old thread returns (ok) or throws.  When the row of the
\* conversation has been deleted meanwhile, the insert of the assistant row
\* violates its foreign key and the handler ends with that error.
AfterTeardown(r, ok) ==
  /\ req[r].pc = "awaitTeardown"
  /\ IF Proceeds(ok) /\ sessions[req[r].sid].exists
     THEN RegenRebase(r, req[r], messages)
     ELSE /\ req' = [req EXCEPT ![r].pc = "exited"]
          /\ UNCHANGED <<sessions, nextUuid, messages, nextId, activeStreams>>
  /\ hist' = [hist EXCEPT ![r].teardownFailed = ~ok]
  /\ UNCHANGED <<upstream, client, now, creds, nreq, remoteLog, used, budget>>

\* chat.post("/") returns an error reply: return c.json({ error }, status)
RejectSend(u, s, q) ==
  /\ SendStatus(u, s, q) # 200
  /\ client' = [client EXCEPT !.reply = [op |-> "send", status |-> SendStatus(u, s, q)]]
  /\ UNCHANGED <<upstream, now, creds, sessions, messages, activeStreams, req, nreq, nextId,
                 nextUuid, remoteLog, hist, budget, used>>

\* chat.post("/regenerate") returns an error reply
RejectRegen(u, s, m) ==
  /\ RegenStatus(u, s, m) # 200
  /\ client' = [client EXCEPT !.reply = [op |-> "regen", status |-> RegenStatus(u, s, m)]]
  /\ UNCHANGED <<upstream, now, creds, sessions, messages, activeStreams, req, nreq, nextId,
                 nextUuid, remoteLog, hist, budget, used>>

\* ----------------------------------------------------------- sessions.ts
EditStatus(u, s, m, content) ==
  IF content = << >> THEN 400
  ELSE IF ~SessionOf(sessions, s, u) THEN 404
  ELSE IF ~HasMessage(messages, m, s) THEN 404
  ELSE 200

\* sessions.patch("/:id/messages/:messageId")
EditMessage(u, s, m, content) ==
  /\ used.edits < budget.edits
  /\ EditStatus(u, s, m, content) = 200
  /\ messages' = updateMessage(messages, m, s, content)
  /\ used' = [used EXCEPT !.edits = @ + 1]
  /\ UNCHANGED <<upstream, client, now, creds, sessions, activeStreams, req, nreq, nextId, nextUuid,
                 remoteLog, hist, budget>>


\* sessions.delete("/:id/messages/:messageId")
DeleteMessage(u, s, m) ==
  /\ used.edits < budget.edits
  /\ SessionOf(sessions, s, u)
  /\ HasMessage(messages, m, s)       \* input: an existing row (else nothing changes)
  /\ messages' = deleteMessage(messages, m, s)
  /\ used' = [used EXCEPT !.edits = @ + 1]
  /\ UNCHANGED <<upstream, client, now, creds, sessions, activeStreams, req, nreq, nextId, nextUuid,
                 remoteLog, hist, budget>>

\* sessions.delete("/:id")
DeleteSession(u, s) ==
  /\ used.drops < budget.drops
  /\ SessionOf(sessions, s, u)         \* input: an existing row (else nothing changes)
  /\ sessions' = deleteChatSession(sessions, s, u)
  /\ messages' = Cascade(messages, sessions')
  /\ used' = [used EXCEPT !.drops = @ + 1]
  /\ UNCHANGED <<upstream, client, now, creds, activeStreams, req, nreq, nextId, nextUuid, remoteLog,
                 hist, budget>>

ForkStatus(u, s, m) ==
  IF m = 0 THEN 400
  ELSE IF ~SessionOf(sessions, s, u) THEN 404
  ELSE IF ~HasMessage(messages, m, s) THEN 404
  ELSE 201

\* sessions.post("/:id/fork"): forkSession
ForkSession(u, s, m) ==
  /\ used.forks < budget.forks
  /\ ForkStatus(u, s, m) = 201
  /\ \E new \in SessionIds :
       /\ ~sessions[new].exists          \* generateId(): an id not in use
       /\ LET rows == messagesToCopy(messages, s, m) IN
          /\ sessions' = createChatSession(sessions, new, u, ForkTitle(sessions[s].title),
                                            sessions[s].agent)
          /\ messages' = messages \o Copies(rows, new, nextId)
          /\ nextId' = nextId + Len(rows)
  /\ used' = [used EXCEPT !.forks = @ + 1]
  /\ UNCHANGED <<upstream, client, now, creds, activeStreams, req, nreq, nextUuid, remoteLog, hist, budget>>

\* sessions.get("/:id/messages/:messageId"): the reply to a poll of message m
\* of conversation s by user u ("" : no authenticated user), read from the
\* tables sess and msgs.
NoRow == Row(0, "", "", << >>, 0, "")

PollMessage(sess, msgs, u, s, m) ==
  IF u = "" THEN [status |-> 401, body |-> NoRow]
  ELSE IF ~SessionOf(sess, s, u) THEN [status |-> 404, body |-> NoRow]
  ELSE IF ~HasMessage(msgs, m, s) THEN [status |-> 404, body |-> NoRow]
  ELSE [status |-> 200, body |-> getMessage(msgs, m, s)]

\* ----------------------------------------------------------- useChat: sendMessage
\* The hook reads the push channel of the first request of the run.
HookReq == 1

\* The callbacks sendMessage gives to readStream, applied to one parsed event.
\* onDone hands the message to the page with the content shown at that time.
HookEvent(h, ev) ==
  CASE ev.type = "ids" -> [h EXCEPT !.assistantMsgId = ev.messageId]
    [] ev.type = "delta" -> [h EXCEPT !.fullContent = Append(@, ev.text)]
    [] ev.type = "done" ->
         [h EXCEPT !.streamCompleted = TRUE,
                   !.assistantMsgId = ev.messageId,
                   !.doneCalls = Append(@, [id |-> ev.messageId, content |-> h.fullContent]),
                   !.doneWhen = Append(@, h.stop),
                   !.titles = IF ev.text \in {"undefined", ""} THEN @ ELSE Append(@, ev.text)]
    [] ev.type = "error" ->
         [h EXCEPT !.streamCompleted = TRUE, !.errors = Append(@, ev.text)]
    [] OTHER -> h

\* readStream: the next event the server wrote reaches the reader.
ReadEvent ==
  LET h == client.hook
      delivered == Delivered(req[HookReq])
  IN /\ h.pc = "reading"
     /\ h.stop # "aborted"
     /\ h.cursor < Len(delivered)
     /\ client' = [client EXCEPT !.hook =
                     [HookEvent(h, delivered[h.cursor + 1].ev) EXCEPT !.cursor = @ + 1]]
     /\ UNCHANGED <<upstream, now, creds, sessions, messages, activeStreams, req, nreq, nextId,
                    nextUuid, remoteLog, hist, budget, used>>

\* if (!streamCompleted && assistantMsgId && !controller.signal.aborted)
FallsBack(h) == ~h.streamCompleted /\ h.assistantMsgId # 0 /\ h.stop # "aborted"

\* readStream ends: the server closed the response after its last event, or
\* the connection was lost, in which case reader.read() reports the end or
\* throws, with any of the events written so far read.
StreamEnd(threw) ==
  LET h == client.hook IN
  /\ h.pc = "reading"
  /\ h.stop # "aborted"
  /\ req[HookReq].kind # "none"
  /\ \/ ~req[HookReq].open
     \/ /\ req[HookReq].pc = "exited"
        /\ h.cursor = Len(Delivered(req[HookReq]))
        /\ ~threw
  /\ client' = [client EXCEPT !.hook =
       IF (~threw /\ FallsBack(h)) \/ (threw /\ h.assistantMsgId # 0)
       THEN [h EXCEPT !.pc = "polling", !.lastContent = << >>, !.polled = TRUE]
       ELSE IF threw
            THEN [h EXCEPT !.pc = "finished", !.errors = Append(@, "network")]
            ELSE [h EXCEPT !.pc = "finished"]]
  /\ UNCHANGED <<upstream, now, creds, sessions, messages, activeStreams, req, nreq, nextId,
                 nextUuid, remoteLog, hist, budget, used>>

\* Mutant: the request is answered with the row of the message.
ChatPollReply_Served(dist, msgs, m) ==
  IF HasMessageId(msgs, m)
  THEN [ok |-> TRUE, json |-> TRUE, content |-> MessageById(msgs, m).content,
        status |-> MessageById(msgs, m).status]
  ELSE [ok |-> FALSE, json |-> FALSE, content |-> << >>, status |-> ""]

\* The reply of the server to GET /api/chat/poll/:messageId.  The chat router
\* has the routes /stop, / and /regenerate only, so the request falls through
\* to the static file handlers: index.html (not JSON) where the built client
\* is present (dist), 404 otherwise.
ChatPollReply(dist, msgs, m) ==
  IF dist THEN [ok |-> TRUE, json |-> FALSE, content |-> << >>, status |-> ""]
  ELSE [ok |-> FALSE, json |-> FALSE, content |-> << >>, status |-> ""]

\* One round of the loop of pollUntilDone.
PollOnce ==
  LET h == client.hook
      res == ChatPollReply(client.dist, messages, h.assistantMsgId)
      shown == IF res.content # << >> /\ res.content # h.lastContent
               THEN res.content ELSE h.fullContent
      last == IF res.content # << >> /\ res.content # h.lastContent
              THEN res.content ELSE h.lastContent
  IN /\ h.pc = "polling"
     /\ h.stop # "aborted"
     /\ client' = [client EXCEPT !.hook =
          IF ~res.ok
          THEN [h EXCEPT !.pc = "finished", !.errors = Append(@, "Polling failed")]
          ELSE IF ~res.json THEN h        \* res.json() throws: retry after the interval
          ELSE IF res.status # "streaming"
               THEN [h EXCEPT !.pc = "finished", !.fullContent = shown, !.lastContent = last,
                              !.doneCalls = Append(@, [id |-> h.assistantMsgId,
                                                       content |-> shown]),
                              !.doneWhen = Append(@, h.stop)]
               ELSE [h EXCEPT !.fullContent = shown, !.lastContent = last]]
     /\ UNCHANGED <<upstream, now, creds, sessions, messages, activeStreams, req, nreq, nextId,
                    nextUuid, remoteLog, hist, budget, used>>

\* ----------------------------------------------------------- useChat: stopGeneration
\* The user stops the generation: stopGeneration is called and posts /api/chat/stop.
StopClick ==
  LET h == client.hook IN
  /\ h.pc \in {"reading", "polling"}
  /\ h.stop = "none"
  /\ client' = [client EXCEPT !.hook.stop = "requested"]
  /\ UNCHANGED <<upstream, now, creds, sessions, messages, activeStreams, req, nreq, nextId,
                 nextUuid, remoteLog, hist, budget, used>>

\* The stop request has returned or failed (best effort): the controller of
\* the send, if the send has not finished, is aborted.
StopAbort ==
  LET h == client.hook IN
  /\ h.stop = "requested"
  /\ client' = [client EXCEPT !.hook.stop =
                  IF h.pc \in {"reading", "polling"} THEN "aborted" ELSE "returned"]
  /\ UNCHANGED <<upstream, now, creds, sessions, messages, activeStreams, req, nreq, nextId,
                 nextUuid, remoteLog, hist, budget, used>>

\* The pending read or poll of an aborted send rejects; readStream (or
\* pollUntilDone) returns and sendMessage ends without a callback.
AbortReturn ==
  LET h == client.hook IN
  /\ h.stop = "aborted"
  /\ h.pc \in {"reading", "polling"}
  /\ client' = [client EXCEPT !.hook.pc = "finished"]
  /\ UNCHANGED <<upstream, now, creds, sessions, messages, activeStreams, req, nreq, nextId,
                 nextUuid, remoteLog, hist, budget, used>>

\* ----------------------------------------------------------- Chat page: startPolling
\* messages.find((m) => m.status === "streaming")
StreamingOf(rows) == SelectSeq(rows, LAMBDA m : m.status = "streaming")

\* The page of user u has loaded the messages of conversation s and finds one
\* of them streaming: startPolling(s, its id).
PageLoad(u, s) ==
  LET rows == getMessages(messages, s) IN
  /\ client.poller.pc = "off"
  /\ SessionOf(sessions, s, u)
  /\ StreamingOf(rows) # << >>
  /\ client' = [client EXCEPT !.poller =
       [NoPoller EXCEPT !.pc = "on", !.user = u, !.sessionId = s,
                        !.messageId = StreamingOf(rows)[1].id,
                        !.local = [content |-> StreamingOf(rows)[1].content,
                                   status |-> "streaming"]]]
  /\ UNCHANGED <<upstream, now, creds, sessions, messages, activeStreams, req, nreq, nextId,
                 nextUuid, remoteLog, hist, budget, used>>

\* Mutant: the stale counter is never compared with its limit.
GivesUp_Never(staleCount) == FALSE

\* if (staleCount >= MAX_STALE)
GivesUp(staleCount) == staleCount >= MAX_STALE

\* One run of the interval callback of startPolling.  pc: "done" - a poll
\* returned complete; "gaveUp" - stale; "failed" - api.getMessage threw.
PagePoll ==
  LET p == client.poller
      res == PollMessage(sessions, messages, p.user, p.sessionId, p.messageId)
      msg == res.body
  IN /\ p.pc = "on"
     /\ client' = [client EXCEPT !.poller =
          IF res.status # 200 THEN [p EXCEPT !.pc = "failed"]
          ELSE IF msg.status = "complete"
               THEN [p EXCEPT !.pc = "done",
                              !.local = [content |-> msg.content, status |-> msg.status]]
          ELSE IF msg.content = p.lastContent
               THEN IF GivesUp(p.staleCount + 1)
                    THEN [p EXCEPT !.pc = "gaveUp", !.staleCount = @ + 1,
                                   !.local = [content |-> msg.content, status |-> "complete"]]
                    ELSE [p EXCEPT !.staleCount = @ + 1,
                                   !.local = [content |-> msg.content, status |-> msg.status]]
               ELSE [p EXCEPT !.lastContent = msg.content, !.staleCount = 0,
                              !.local = [content |-> msg.content, status |-> msg.status]]]
     /\ UNCHANGED <<upstream, now, creds, sessions, messages, activeStreams, req, nreq, nextId,
                    nextUuid, remoteLog, hist, budget, used>>

\* ----------------------------------------------------------- specification
MessageIdInputs == 0..nextId      \* 0: missing, nextId: no such row

Next ==
  \/ \E u \in Users, s \in SessionInputs : Stop(u, s)
  \/ \E u \in Users, s \in SessionInputs, q \in QueryInputs : StartSend(u, s, q)
  \/ \E u \in Users, s \in SessionInputs, m \in MessageIdInputs : StartRegen(u, s, m)
  \/ \E r \in ReqIds, ok \in BOOLEAN : AfterTeardown(r, ok)
  \/ \E r \in ReqIds : AfterIds(r)
  \/ \E r \in ReqIds : AfterThinking(r)
  \/ \E r \in ReqIds, type \in UpstreamEventTypes : UpstreamEvent(r, type)
  \/ \E r \in ReqIds : UpstreamEnd(r)
  \/ \E r \in ReqIds : UpstreamFail(r)
  \/ \E r \in ReqIds, ok \in BOOLEAN, t \in Titles : TitleResult(r, ok, t)
  \/ \E r \in ReqIds : AfterTitleCleanup(r)
  \/ \E r \in ReqIds : AfterDone(r)
  \/ \E r \in ReqIds : AfterErr(r)
  \/ \E r \in ReqIds : ClientGone(r)
  \/ \E u \in Users, s \in SessionInputs, m \in MessageIdInputs, c \in EditContents \cup {<< >>} :
       EditMessage(u, s, m, c)
  \/ \E u \in Users, s \in SessionInputs, m \in MessageIdInputs : DeleteMessage(u, s, m)
  \/ \E u \in Users, s \in SessionInputs : DeleteSession(u, s)
  \/ \E u \in Users, s \in SessionInputs, m \in MessageIdInputs : ForkSession(u, s, m)
  \/ Tick

Spec == Init /\ [][Next]_vars


\* ----------------------------------------------------------- buildChatHistory alone
\* Contents of the messages of a list given to buildChatHistory, by position.
UserText == <<"x1", "x2", "x3", "x4", "x5", "x6", "x7">>
AsstText == <<"y1", "y2", "y3", "y4", "y5", "y6", "y7">>

\* The message lists of "s1" of up to MaxList messages, one message per second,
\* of either role at each place; the answer at place 2 is empty.
RowsOf(roles) ==
  [i \in DOMAIN roles |->
     Row(i, "s1", roles[i],
         IF roles[i] = "user" THEN <<UserText[i]>>
         ELSE IF i = 2 THEN << >> ELSE <<AsstText[i]>>,
         i - 1, "complete")]

BuildInputs ==
  UNION {{RowsOf(roles) : roles \in [1..n -> {"user", "assistant"}]} : n \in 0..MaxList}

\* deletions only
BuildBudget == Budget(0, 0, 0, MaxList, 0, 0, 0)

InitBuild ==
  /\ budget = BuildBudget
  /\ now = MaxList
  /\ creds = [u \in Users |-> u \in WithCredentials]
  /\ sessions = [s \in SessionIds |-> IF s = "s1" THEN SeedSession(1) ELSE NoSession]
  /\ messages \in BuildInputs
  /\ activeStreams = [s \in SessionIds |-> 0]
  /\ req = [r \in ReqIds |-> NoReq]
  /\ nreq = 0
  /\ nextId = MaxList + 1
  /\ nextUuid = 2
  /\ remoteLog = << >>
  /\ hist = [r \in ReqIds |-> NoHist]
  /\ used = [events |-> 0, edits |-> 0, gone |-> 0, stops |-> 0, fails |-> 0,
             forks |-> 0, drops |-> 0]
  /\ client = NoClient
  /\ upstream = NoUpstream

NextBuild ==
  \E u \in Users, s \in SessionInputs, m \in MessageIdInputs : DeleteMessage(u, s, m)

SpecBuild == InitBuild /\ [][NextBuild]_vars

\* ----------------------------------------------------------- one attempt, timed
InitClock ==
  /\ budget = ClockBudget
  /\ now = 0
  /\ creds = [u \in Users |-> u \in WithCredentials]
  /\ sessions = [s \in SessionIds |-> IF s = "s1" THEN SeedSession(0) ELSE NoSession]
  /\ messages = << >>
  /\ activeStreams = [s \in SessionIds |-> 0]
  /\ req = [r \in ReqIds |-> NoReq]
  /\ nreq = 0
  /\ nextId = 1
  /\ nextUuid = 1
  /\ remoteLog = << >>
  /\ hist = [r \in ReqIds |-> NoHist]
  /\ used = [events |-> 0, edits |-> 0, gone |-> 0, stops |-> 0, fails |-> 0,
             forks |-> 0, drops |-> 0]
  /\ client = NoClient
  /\ upstream = NoUpstream

NextClock ==
  \/ \E u \in Users, s \in SessionInputs, q \in QueryInputs : StartSend(u, s, q)
  \/ \E r \in ReqIds : AfterIds(r)
  \/ \E r \in ReqIds : AfterThinking(r)
  \/ \E r \in ReqIds, type \in UpstreamEventTypes : UpstreamEvent(r, type)
  \/ \E r \in ReqIds : UpstreamEnd(r)
  \/ \E r \in ReqIds, ok \in BOOLEAN, t \in Titles : TitleResult(r, ok, t)
  \/ \E r \in ReqIds : AfterTitleCleanup(r)
  \/ \E r \in ReqIds : AfterDone(r)
  \/ Tick

SpecClock == InitClock /\ [][NextClock]_vars

\* ----------------------------------------------------------- one send and its client
MaxClientEvents == 2

\* one attempt whose client may lose its connection, with an upstream failure
ClientBudget == Budget(1, MaxClientEvents, 0, 0, MaxGone, 0, MaxFails)

InitClient ==
  /\ budget = ClientBudget
  /\ now = 0
  /\ creds = [u \in Users |-> u \in WithCredentials]
  /\ sessions = [s \in SessionIds |-> IF s = "s1" THEN SeedSession(0) ELSE NoSession]
  /\ messages = << >>
  /\ activeStreams = [s \in SessionIds |-> 0]
  /\ req = [r \in ReqIds |-> NoReq]
  /\ nreq = 0
  /\ nextId = 1
  /\ nextUuid = 1
  /\ remoteLog = << >>
  /\ hist = [r \in ReqIds |-> NoHist]
  /\ used = [events |-> 0, edits |-> 0, gone |-> 0, stops |-> 0, fails |-> 0,
             forks |-> 0, drops |-> 0]
  /\ \E dist \in BOOLEAN :
       client = [NoClient EXCEPT !.dist = dist, !.hook.pc = "reading"]
  /\ upstream = NoUpstream

NextClient ==
  \/ \E u \in Users, s \in SessionInputs, q \in QueryInputs : StartSend(u, s, q)
  \/ \E r \in ReqIds : AfterIds(r)
  \/ \E r \in ReqIds : AfterThinking(r)
  \/ \E r \in ReqIds, type \in UpstreamEventTypes : UpstreamEvent(r, type)
  \/ \E r \in ReqIds : UpstreamEnd(r)
  \/ \E r \in ReqIds : UpstreamFail(r)
  \/ \E r \in ReqIds, ok \in BOOLEAN, t \in Titles : TitleResult(r, ok, t)
  \/ \E r \in ReqIds : AfterTitleCleanup(r)
  \/ \E r \in ReqIds : AfterDone(r)
  \/ \E r \in ReqIds : AfterErr(r)
  \/ \E r \in ReqIds : ClientGone(r)
  \/ ReadEvent
  \/ \E threw \in BOOLEAN : StreamEnd(threw)
  \/ PollOnce

SpecClient == InitClient /\ [][NextClient]_vars

\* Handlers resume, timers fire and the reader is served: the system does not
\* stop while a step that changes something can be taken.
SpecClientFair == SpecClient /\ WF_vars(NextClient)

\* ----------------------------------------------------------- one attempt and a page poller
PageTicks == 1

\* one attempt with a snapshot write, nothing else
PageBudget == Budget(1, MaxClientEvents, PageTicks, 0, 0, 0, 0)

InitPage ==
  /\ budget = PageBudget
  /\ now = 0
  /\ creds = [u \in Users |-> u \in WithCredentials]
  /\ sessions = [s \in SessionIds |-> IF s = "s1" THEN SeedSession(0) ELSE NoSession]
  /\ messages = << >>
  /\ activeStreams = [s \in SessionIds |-> 0]
  /\ req = [r \in ReqIds |-> NoReq]
  /\ nreq = 0
  /\ nextId = 1
  /\ nextUuid = 1
  /\ remoteLog = << >>
  /\ hist = [r \in ReqIds |-> NoHist]
  /\ used = [events |-> 0, edits |-> 0, gone |-> 0, stops |-> 0, fails |-> 0,
             forks |-> 0, drops |-> 0]
  /\ client = NoClient
  /\ upstream = NoUpstream

NextPage ==
  \/ \E u \in Users, s \in SessionInputs, q \in QueryInputs : StartSend(u, s, q)
  \/ \E r \in ReqIds : AfterIds(r)
  \/ \E r \in ReqIds : AfterThinking(r)
  \/ \E r \in ReqIds, type \in UpstreamEventTypes : UpstreamEvent(r, type)
  \/ \E r \in ReqIds : UpstreamEnd(r)
  \/ \E r \in ReqIds, ok \in BOOLEAN, t \in Titles : TitleResult(r, ok, t)
  \/ \E r \in ReqIds : AfterTitleCleanup(r)
  \/ \E r \in ReqIds : AfterDone(r)
  \/ Tick
  \/ \E u \in Users, s \in SessionInputs : PageLoad(u, s)
  \/ PagePoll

SpecPage == InitPage /\ [][NextPage]_vars

\* ----------------------------------------------------------- requests of any user
InitGate ==
  /\ budget = ThreadBudget
  /\ now = budget.seed
  /\ creds = [u \in Users |-> u \in WithCredentials]
  /\ sessions = [s \in SessionIds |->
                   IF s = "s1" THEN SeedSession(budget.seed) ELSE NoSession]
  /\ messages = SeedMessages(budget.seed)
  /\ activeStreams = [s \in SessionIds |-> 0]
  /\ req = [r \in ReqIds |-> NoReq]
  /\ nreq = 0
  /\ nextId = 2 * budget.seed + 1
  /\ nextUuid = 2
  /\ remoteLog = << >>
  /\ hist = [r \in ReqIds |-> NoHist]
  /\ used = [events |-> 0, edits |-> 0, gone |-> 0, stops |-> 0, fails |-> 0,
             forks |-> 0, drops |-> 0]
  /\ client = NoClient
  /\ upstream = NoUpstream

NextGate ==
  \/ \E u \in UserInputs, s \in SessionInputs, q \in QueryInputs : StartSend(u, s, q)
  \/ \E u \in UserInputs, s \in SessionInputs, q \in QueryInputs : RejectSend(u, s, q)
  \/ \E u \in UserInputs, s \in SessionInputs, m \in MessageIdInputs : StartRegen(u, s, m)
  \/ \E u \in UserInputs, s \in SessionInputs, m \in MessageIdInputs : RejectRegen(u, s, m)
  \/ \E r \in ReqIds, ok \in BOOLEAN : AfterTeardown(r, ok)
  \/ \E r \in ReqIds : AfterIds(r)
  \/ \E r \in ReqIds : AfterThinking(r)
  \/ \E r \in ReqIds : UpstreamEnd(r)
  \/ \E r \in ReqIds : AfterDone(r)
  \/ \E u \in Users, s \in SessionInputs, m \in MessageIdInputs : DeleteMessage(u, s, m)
  \/ \E u \in Users, s \in SessionInputs : DeleteSession(u, s)

SpecGate == InitGate /\ [][NextGate]_vars

\* ----------------------------------------------------------- you-client: streamChat
\* The response body is a sequence of text units; a line is the units between
\* two "\n" units, e.g. <<"event: ", "youChatToken">>.  A chunk of reader.read()
\* is a run of consecutive units.
MaxFrames == 2     \* event frames of an upstream response
MaxCuts == 2       \* places at which the response is split into read chunks

NL == "\n"
CR == "\r"

TokenEvent(text) == [type |-> "token", text |-> text]
ThinkingEvent(msg) == [type |-> "thinking", text |-> msg]
DoneEvent == [type |-> "done", text |-> ""]

\* Frames the upstream sends: a token "a" or "b", a thinking update, done.
FrameKinds == {"a", "b", "thinking", "done"}

EventLine(f) ==
  CASE f \in {"a", "b"} -> <<"event: ", "youChatToken">>
    [] f = "thinking" -> <<"event: ", "youChatUpdate">>
    [] OTHER -> <<"event: ", "done">>

DataLine(f) ==
  CASE f = "a" -> <<"data: ", "{\"youChatToken\":\"a\"}">>
    [] f = "b" -> <<"data: ", "{\"youChatToken\":\"b\"}">>
    [] f = "thinking" -> <<"data: ", "{\"msg\":\"Thinking\",\"done\":false}">>
    [] OTHER -> <<"data: ", "{\"done\":true}">>

\* The lines of a frame: event line, data line, blank line.
FrameLines(f) == <<EventLine(f), DataLine(f), << >>>>

RECURSIVE LinesOf(_)
LinesOf(frames) ==
  IF frames = << >> THEN << >> ELSE FrameLines(Head(frames)) \o LinesOf(Tail(frames))

\* The units of a line sequence, each line ended by "\n" or by "\r\n".
RECURSIVE BytesOf(_, _)
BytesOf(lines, crlf) ==
  IF lines = << >> THEN << >>
  ELSE Head(lines) \o (IF crlf THEN <<CR, NL>> ELSE <<NL>>) \o BytesOf(Tail(lines), crlf)

\* Sets of at most k places, out of 1..(n - 1), after which the body is cut.
RECURSIVE CutsUpTo(_, _)
CutsUpTo(n, k) ==
  IF k = 0 THEN {{}}
  ELSE CutsUpTo(n, k - 1) \cup {c \cup {i} : c \in CutsUpTo(n, k - 1), i \in 1..(n - 1)}

RECURSIVE ChunksOf(_, _, _)
ChunksOf(bytes, cuts, from) ==
  LET later == {c \in cuts : c >= from} IN
  IF later = {} THEN <<SubSeq(bytes, from, Len(bytes))>>
  ELSE LET c == CHOOSE x \in later : \A y \in later : x <= y
       IN <<SubSeq(bytes, from, c)>> \o ChunksOf(bytes, cuts, c + 1)

\* buffer.split("\n")
RECURSIVE SplitLines(_)
SplitLines(buf) ==
  IF \A i \in 1..Len(buf) : buf[i] # NL THEN <<buf>>
  ELSE LET k == CHOOSE i \in 1..Len(buf) : buf[i] = NL /\ \A j \in 1..(i - 1) : buf[j] # NL
       IN <<SubSeq(buf, 1, k - 1)>> \o SplitLines(SubSeq(buf, k + 1, Len(buf)))

\* line.trim()
RECURSIVE Trim(_)
Trim(line) ==
  IF line = << >> THEN line
  ELSE IF Head(line) \in {CR, " "} THEN Trim(Tail(line))
  ELSE IF line[Len(line)] \in {CR, " "} THEN Trim(SubSeq(line, 1, Len(line) - 1))
  ELSE line

\* trimmed.startsWith(prefix) and trimmed.slice(prefix.length)
StartsWith(line, prefix) == line # << >> /\ Head(line) = prefix

Slice(line) == Tail(line)

\* JSON.parse(data): the fields streamChat reads; ok is FALSE when it throws.
JSONparse(data) ==
  CASE data = <<"{\"youChatToken\":\"a\"}">> ->
         [ok |-> TRUE, youChatToken |-> "a", msg |-> "", done |-> FALSE]
    [] data = <<"{\"youChatToken\":\"b\"}">> ->
         [ok |-> TRUE, youChatToken |-> "b", msg |-> "", done |-> FALSE]
    [] data = <<"{\"msg\":\"Thinking\",\"done\":false}">> ->
         [ok |-> TRUE, youChatToken |-> "", msg |-> "Thinking", done |-> FALSE]
    [] data = <<"{\"done\":true}">> ->
         [ok |-> TRUE, youChatToken |-> "", msg |-> "", done |-> TRUE]
    [] OTHER -> [ok |-> FALSE, youChatToken |-> "", msg |-> "", done |-> FALSE]

\* for (const line of lines) { ... }: the events yielded for the lines from
\* the i-th on, and whether the generator returned (done).
RECURSIVE ProcessLines(_, _, _, _)
ProcessLines(lines, i, currentEvent, out) ==
  IF i > Len(lines) THEN [out |-> out, returned |-> FALSE]
  ELSE LET trimmed == Trim(lines[i]) IN
       IF StartsWith(trimmed, "event: ")
       THEN ProcessLines(lines, i + 1, Slice(trimmed), out)
       ELSE IF StartsWith(trimmed, "data: ")
       THEN LET parsed == JSONparse(Slice(trimmed)) IN
            IF currentEvent = <<"youChatUpdate">>
            THEN ProcessLines(lines, i + 1, currentEvent,
                   IF parsed.ok /\ parsed.msg # "" /\ ~parsed.done
                   THEN Append(out, ThinkingEvent(parsed.msg)) ELSE out)
            ELSE IF currentEvent = <<"youChatToken">>
            THEN ProcessLines(lines, i + 1, currentEvent,
                   IF parsed.ok /\ parsed.youChatToken # ""
                   THEN Append(out, TokenEvent(parsed.youChatToken)) ELSE out)
            ELSE IF currentEvent = <<"done">>
            THEN [out |-> Append(out, DoneEvent), returned |-> TRUE]
            ELSE ProcessLines(lines, i + 1, currentEvent, out)
       ELSE ProcessLines(lines, i + 1, currentEvent, out)

\* Mutant: the event name is kept from one round of the read loop to the next.
FirstEvent_Kept(lastEvent) == lastEvent

\* let currentEvent = "": the event name each round of the read loop starts with
FirstEvent(lastEvent) == << >>

\* The event name in force after the lines of a round.
RECURSIVE EventAfter(_, _, _)
EventAfter(lines, i, currentEvent) ==
  IF i > Len(lines) THEN currentEvent
  ELSE IF StartsWith(Trim(lines[i]), "event: ")
       THEN EventAfter(lines, i + 1, Slice(Trim(lines[i])))
       ELSE EventAfter(lines, i + 1, currentEvent)

\* reader.read() returns a chunk: one round of the read loop.
ReadChunk ==
  /\ upstream.pc = "reading"
  /\ upstream.chunks # << >>
  /\ LET parts == SplitLines(upstream.buffer \o Head(upstream.chunks))
         lines == SubSeq(parts, 1, Len(parts) - 1)
         first == FirstEvent(upstream.lastEvent)
         res == ProcessLines(lines, 1, first, upstream.out)
     IN upstream' = [upstream EXCEPT !.chunks = Tail(@),
                                     !.buffer = parts[Len(parts)],
                                     !.out = res.out,
                                     !.lastEvent = EventAfter(lines, 1, first),
                                     !.pc = IF res.returned THEN "returned" ELSE "reading"]
  /\ UNCHANGED <<now, creds, sessions, messages, activeStreams, req, nreq, nextId,
                 nextUuid, remoteLog, hist, budget, used, client>>

\* reader.read() reports the end of the body: the loop is left.
ReadEnd ==
  /\ upstream.pc = "reading"
  /\ upstream.chunks = << >>
  /\ upstream' = [upstream EXCEPT !.pc = "ended"]
  /\ UNCHANGED <<now, creds, sessions, messages, activeStreams, req, nreq, nextId,
                 nextUuid, remoteLog, hist, budget, used, client>>

FrameSeqs == UNION {[1..n -> FrameKinds] : n \in 1..MaxFrames}

ParseBudget == Budget(0, 0, 0, 0, 0, 0, 0)

InitParse ==
  /\ budget = ParseBudget
  /\ now = 0
  /\ creds = [u \in Users |-> u \in WithCredentials]
  /\ sessions = [s \in SessionIds |-> IF s = "s1" THEN SeedSession(0) ELSE NoSession]
  /\ messages = << >>
  /\ activeStreams = [s \in SessionIds |-> 0]
  /\ req = [r \in ReqIds |-> NoReq]
  /\ nreq = 0
  /\ nextId = 1
  /\ nextUuid = 1
  /\ remoteLog = << >>
  /\ hist = [r \in ReqIds |-> NoHist]
  /\ used = [events |-> 0, edits |-> 0, gone |-> 0, stops |-> 0, fails |-> 0,
             forks |-> 0, drops |-> 0]
  /\ client = NoClient
  /\ \E frames \in FrameSeqs, crlf \in BOOLEAN :
       LET bytes == BytesOf(LinesOf(frames), crlf) IN
       \E cuts \in CutsUpTo(Len(bytes), MaxCuts) :
         upstream = [NoUpstream EXCEPT !.pc = "reading", !.frames = frames,
                                       !.chunks = ChunksOf(bytes, cuts, 1)]

NextParse ==
  \/ ReadChunk
  \/ ReadEnd

SpecParse == InitParse /\ [][NextParse]_vars

\* ----------------------------------------------------------- a send and a rename
\* Titles a user gives to a conversation ("": no title in the body).
UserTitles == {"U", ""}

\* sessions.patch("/:id"): updateChatSession(id, user.id, body) by the owner
\* (for any other user, or an unknown id, no row is updated and the reply is 404).
RenameSession(u, s, title) ==
  /\ SessionOf(sessions, s, u)
  /\ sessions' = updateChatSessionTitle(sessions, s, u, title)
  /\ UNCHANGED <<now, creds, messages, activeStreams, req, nreq, nextId, nextUuid,
                 remoteLog, hist, budget, used, client, upstream>>

InitTitle ==
  /\ budget = ClientBudget
  /\ now = 0
  /\ creds = [u \in Users |-> u \in WithCredentials]
  /\ sessions = [s \in SessionIds |-> IF s = "s1" THEN SeedSession(0) ELSE NoSession]
  /\ messages = << >>
  /\ activeStreams = [s \in SessionIds |-> 0]
  /\ req = [r \in ReqIds |-> NoReq]
  /\ nreq = 0
  /\ nextId = 1
  /\ nextUuid = 1
  /\ remoteLog = << >>
  /\ hist = [r \in ReqIds |-> NoHist]
  /\ used = [events |-> 0, edits |-> 0, gone |-> 0, stops |-> 0, fails |-> 0,
             forks |-> 0, drops |-> 0]
  /\ client = NoClient
  /\ upstream = NoUpstream

NextTitle ==
  \/ \E u \in Users, s \in SessionInputs, q \in QueryInputs : StartSend(u, s, q)
  \/ \E r \in ReqIds : AfterIds(r)
  \/ \E r \in ReqIds : AfterThinking(r)
  \/ \E r \in ReqIds, type \in UpstreamEventTypes : UpstreamEvent(r, type)
  \/ \E r \in ReqIds : UpstreamEnd(r)
  \/ \E r \in ReqIds : UpstreamFail(r)
  \/ \E r \in ReqIds, ok \in BOOLEAN, t \in Titles : TitleResult(r, ok, t)
  \/ \E r \in ReqIds : AfterTitleCleanup(r)
  \/ \E r \in ReqIds : AfterDone(r)
  \/ \E r \in ReqIds : AfterErr(r)
  \/ \E r \in ReqIds : ClientGone(r)
  \/ \E u \in Users, s \in SessionInputs, t \in UserTitles : RenameSession(u, s, t)

SpecTitle == InitTitle /\ [][NextTitle]_vars

\* ----------------------------------------------------------- a send, its client and a stop
\* one attempt whose client may lose its connection or stop the generation
StopBudget == Budget(1, MaxClientEvents, 0, 0, MaxGone, MaxStops, MaxFails)

InitStop ==
  /\ budget = StopBudget
  /\ now = 0
  /\ creds = [u \in Users |-> u \in WithCredentials]
  /\ sessions = [s \in SessionIds |-> IF s = "s1" THEN SeedSession(0) ELSE NoSession]
  /\ messages = << >>
  /\ activeStreams = [s \in SessionIds |-> 0]
  /\ req = [r \in ReqIds |-> NoReq]
  /\ nreq = 0
  /\ nextId = 1
  /\ nextUuid = 1
  /\ remoteLog = << >>
  /\ hist = [r \in ReqIds |-> NoHist]
  /\ used = [events |-> 0, edits |-> 0, gone |-> 0, stops |-> 0, fails |-> 0,
             forks |-> 0, drops |-> 0]
  /\ \E dist \in BOOLEAN :
       client = [NoClient EXCEPT !.dist = dist, !.hook.pc = "reading"]
  /\ upstream = NoUpstream

NextStop ==
  \/ \E u \in Users, s \in SessionInputs, q \in QueryInputs : StartSend(u, s, q)
  \/ \E u \in Users, s \in SessionInputs : Stop(u, s)
  \/ \E r \in ReqIds : AfterIds(r)
  \/ \E r \in ReqIds : AfterThinking(r)
  \/ \E r \in ReqIds, type \in UpstreamEventTypes : UpstreamEvent(r, type)
  \/ \E r \in ReqIds : UpstreamEnd(r)
  \/ \E r \in ReqIds : UpstreamFail(r)
  \/ \E r \in ReqIds, ok \in BOOLEAN, t \in Titles : TitleResult(r, ok, t)
  \/ \E r \in ReqIds : AfterTitleCleanup(r)
  \/ \E r \in ReqIds : AfterDone(r)
  \/ \E r \in ReqIds : AfterErr(r)
  \/ \E r \in ReqIds : ClientGone(r)
  \/ ReadEvent
  \/ \E threw \in BOOLEAN : StreamEnd(threw)
  \/ PollOnce
  \/ StopClick
  \/ StopAbort
  \/ AbortReturn

SpecStop == InitStop /\ [][NextStop]_vars

\* =========================================================== properties
Requests == {r \in ReqIds : req[r].kind # "none"}

AttemptEnded(r) == hist[r].loopEntered /\ req[r].pc # "awaitUpstream"

Streaming(s) ==
  {i \in 1..Len(messages) : messages[i].sid = s /\ messages[i].status = "streaming"}

\* C1: every run of streamAndSave performs the terminal write
\* completeStreamingMessage(id, fullResponse) exactly once: none while the loop
\* is consuming, one - carrying the accumulated text - once the loop has been
\* left by the end of the upstream, by an upstream error or by an abort.
C1_TerminalWriteOnce ==
  \A r \in ReqIds :
    LET n == Len(hist[r].completions) IN
    /\ n <= 1
    /\ (~hist[r].loopEntered \/ req[r].pc = "awaitUpstream") => n = 0
    /\ AttemptEnded(r) => n = 1 /\ hist[r].completions[1] = req[r].fullResponse

C1_Witness ==
  \E r \in ReqIds :
    /\ hist[r].upstreamFailed
    /\ hist[r].yielded # << >>
    /\ hist[r].completions = <<req[r].fullResponse>>

\* C2: when the handler of a start-generation or regenerate request has
\* exited, the assistant message it created in streaming status is complete,
\* whichever write to the push channel failed.
C2_EveryExitFinalizes ==
  \A r \in ReqIds :
    (req[r].pc = "exited" /\ HasMessageId(messages, req[r].asstMsgId))
      => MessageById(messages, req[r].asstMsgId).status = "complete"

\* C3: at most one message of a conversation has status streaming.
C3_SingleStreaming == \A s \in SessionIds : Cardinality(Streaming(s)) <= 1


\* Event types of a write log, in order.
Types(log) == [i \in 1..Len(log) |-> log[i].ev.type]

Last(seq) == seq[Len(seq)]

\* Steps of an attempt that has been signalled and is still in its loop.
C4_StopAct ==
  \A r \in ReqIds :
    (req[r].aborted /\ req[r].pc = "awaitUpstream") =>
      /\ req'[r].fullResponse = req[r].fullResponse
      /\ hist'[r].snapshots = hist[r].snapshots
      /\ (req'[r].pc = "awaitUpstream" => req'[r].sse = req[r].sse)
      /\ (req'[r].pc # "awaitUpstream" =>
            SelectSeq(Types(req'[r].sse), LAMBDA t : t \in {"thinking", "delta"})
              = SelectSeq(Types(req[r].sse), LAMBDA t : t \in {"thinking", "delta"}))
      /\ (hist'[r].events > hist[r].events => req'[r].pc # "awaitUpstream")

\* The terminal write of a signalled attempt.
C4_StopInv ==
  \A r \in ReqIds :
    (hist[r].stopSignalled /\ AttemptEnded(r)) =>
      hist[r].completions = <<hist[r].textAtStop>>

\* C4: once stop has been signalled to an attempt that is consuming upstream
\* events, no step appends to its text or writes an event from its loop; the
\* next event that arrives takes it out of the loop; and its terminal write
\* carries exactly the text it held when the stop was signalled.
C4_StopCooperative == [][C4_StopAct]_vars /\ []C4_StopInv

C4_Witness ==
  \E r \in ReqIds :
    /\ hist[r].stopSignalled
    /\ hist[r].textAtStop # << >>
    /\ Len(hist[r].yielded) > Len(hist[r].textAtStop)
    /\ hist[r].completions = <<hist[r].textAtStop>>

\* Effect of one stop request on the registry, the messages and the requests.
C5_StopAct ==
  \A u \in Users, s \in SessionInputs :
    Stop(u, s) =>
      /\ s \in SessionIds => activeStreams'[s] = 0
      /\ \A o \in SessionIds \ {s} : activeStreams'[o] = activeStreams[o]
      /\ (s \notin SessionIds \/ activeStreams[s] = 0) =>
           UNCHANGED <<activeStreams, messages, req, sessions>>

\* The answer to a stop request that names a conversation.
C5_StopReply == \A u \in Users, s \in SessionInputs \ {""} : StopStatus(u, s) = 200

\* C5: a stop request for conversation c leaves no registry entry for c; a
\* stop request that finds no entry changes no registry entry, no message and
\* no request; and every stop request that names a conversation is answered
\* 200 { stopped: true }.
C5_StopIdempotent == [][C5_StopAct]_vars /\ []C5_StopReply

C5_Witness ==
  \E r \in ReqIds :
    /\ req[r].aborted
    /\ req[r].pc = "awaitUpstream"
    /\ activeStreams[req[r].sid] = 0
    /\ used.stops = 1

\* C6: after an explicit stop of an in-flight attempt, once the attempt has
\* ended its partial assistant message is no longer in the history.
C6_StoppedPartialDeleted ==
  \A r \in ReqIds :
    (hist[r].stopSignalled /\ AttemptEnded(r))
      => ~HasMessageId(messages, req[r].asstMsgId)

\* The step in which the upstream's failure is handled.
C7_FailAct ==
  \A r \in ReqIds :
    (~hist[r].upstreamFailed /\ hist'[r].upstreamFailed) =>
      /\ req[r].open => Last(Delivered(req'[r])).ev.type = "error"
      /\ HasMessageId(messages, req[r].asstMsgId) =>
           /\ MessageById(messages', req[r].asstMsgId).status = "complete"
           /\ MessageById(messages', req[r].asstMsgId).content = hist[r].yielded

\* The writes of a request whose upstream failed.
C7_FailInv ==
  \A r \in ReqIds :
    hist[r].upstreamFailed =>
      /\ Last(req[r].sse).ev.type = "error"
      /\ \A i \in 1..Len(req[r].sse) : req[r].sse[i].ev.type # "done"
      /\ hist[r].completions = <<hist[r].yielded>>

\* C7: when the upstream throws during an attempt, the step that handles it
\* finalizes the assistant message to complete with exactly the tokens yielded
\* before the failure and writes an error event; the request never writes a
\* done event, and error is its last write.
C7_UpstreamError == [][C7_FailAct]_vars /\ []C7_FailInv

C7_Witness ==
  \E r \in ReqIds :
    /\ hist[r].upstreamFailed
    /\ Len(hist[r].yielded) = 2
    /\ Last(Delivered(req[r])).ev.type = "error"
    /\ HasMessageId(messages, req[r].asstMsgId)
    /\ MessageById(messages, req[r].asstMsgId).content = <<"a", "b">>

\* C8, as stated: the text of the terminal write is the concatenation of every
\* token the upstream yielded before the attempt ended.
C8_AllYieldedPersisted ==
  \A r \in ReqIds :
    AttemptEnded(r) => hist[r].completions = <<hist[r].yielded>>

\* An event whose delivery fails leaves the loop running.
C8_LiveAct ==
  \A r \in ReqIds :
    (req[r].pc = "awaitUpstream" /\ ~req[r].aborted /\ ~req[r].open
       /\ hist'[r].events > hist[r].events)
      => /\ req'[r].pc = "awaitUpstream"
         /\ ~Last(req'[r].sse).ok

\* The text of the terminal write.
C8_LiveInv ==
  \A r \in ReqIds :
    AttemptEnded(r) => hist[r].completions = <<hist[r].yieldedLive>>

\* C8, amended: an event whose delivery fails leaves the loop running, and the
\* text of the terminal write is the in-order concatenation of the tokens the
\* upstream yielded while no stop had been signalled to the attempt, whichever
\* deliveries failed.
C8_DeliveryFailureSwallowed == [][C8_LiveAct]_vars /\ []C8_LiveInv

C8_Witness ==
  \E r \in ReqIds :
    /\ AttemptEnded(r)
    /\ hist[r].completions = <<(<<"a", "b">>)>>
    /\ \E i \in 1..Len(req[r].sse) : req[r].sse[i].ev.type = "delta" /\ ~req[r].sse[i].ok

\* A terminal event type.
Terminal(type) == type \in {"done", "error"}

\* C9: on the channel of a start-generation request the first event carries
\* the user and the assistant message id, thinking and delta events come after
\* it, and at most one terminal event (done with the assistant message id, or
\* error) is delivered, as the last event.
C9_EventOrder ==
  \A r \in ReqIds :
    req[r].kind = "send" =>
      LET d == Delivered(req[r]) IN
      /\ req[r].sse[1].ev = Ev("ids", req[r].userMsgId, req[r].asstMsgId, "")
      /\ req[r].userMsgId # 0 /\ req[r].asstMsgId # 0
      /\ d # << >> => d[1] = req[r].sse[1]
      /\ \A i \in 1..Len(d) :
           /\ d[i].ev.type \in {"thinking", "delta"} => i > 1
           /\ Terminal(d[i].ev.type) => i = Len(d) /\ i > 1
           /\ d[i].ev.type = "done" => d[i].ev.messageId = req[r].asstMsgId
      /\ (req[r].pc = "exited" /\ Len(d) > 0 /\ Terminal(Last(d).ev.type))
           => Len(req[r].sse) = Len(d)

C9_Witness ==
  \E r \in ReqIds :
    /\ req[r].kind = "send"
    /\ req[r].pc = "exited"
    /\ Types(Delivered(req[r])) = <<"ids", "thinking", "thinking", "delta", "done">>

\* Calls of streamChat made with handle h by requests that ran alone.
Streams(h) ==
  SelectSeq(remoteLog, LAMBDA c : c.op = "stream" /\ c.chatId = h /\ hist[c.by].alone)

\* C10: of two consecutive generation requests sent with the same thread
\* handle, neither overlapping another request, the later one's turn-pair list
\* is the earlier one's extended by the earlier one's query and answer.
C10_LinearThread ==
  \A h \in 1..nextUuid :
    LET calls == Streams(h) IN
    \A i \in 1..(Len(calls) - 1) :
      /\ Len(hist[calls[i].by].completions) = 1
      /\ calls[i + 1].chat =
           Append(calls[i].chat, Pair(calls[i].query, hist[calls[i].by].completions[1]))

\* Ids of the messages that follow message mid in the order of its conversation.
Following(msgs, mid, sid) ==
  LET h == getMessages(msgs, sid) IN
  {h[j].id : j \in {j \in 1..Len(h) : \E i \in 1..(j - 1) : h[i].id = mid}}

\* Calls of kind op that request r has made to the remote engine.
CallsIn(log, r, op) == SelectSeq(log, LAMBDA c : c.by = r /\ c.op = op)

CallsBy(r, op) == CallsIn(remoteLog, r, op)

Handles(log) == {log[i].chatId : i \in 1..Len(log)}

\* The steps of a regenerate request up to its first event.
C11_RegenAct ==
  /\ \A u \in Users, s \in SessionInputs, m \in MessageIdInputs :
       StartRegen(u, s, m) =>
         LET old == getSessionYouChatId(sessions, s) IN
         /\ HasMessage(messages', m, s)
         /\ \A x \in Following(messages, m, s) : ~HasMessageId(messages', x)
         /\ IF old # 0
            THEN /\ remoteLog' = Append(remoteLog, RemoteDelete(nreq', old))
                 /\ req'[nreq'].pc = "awaitTeardown"
            ELSE remoteLog' = remoteLog
  /\ \A r \in ReqIds :
       /\ (req'[r].kind = "regen" /\ req[r].pc # "awaitIds" /\ req'[r].pc = "awaitIds") =>
            LET s == req'[r].sid IN
            /\ sessions'[s].you_chat_id = req'[r].chatId
            /\ req'[r].chatId # 0
            /\ req'[r].chatId # sessions[s].you_chat_id
            /\ req'[r].chatId \notin Handles(remoteLog')
            /\ CallsIn(remoteLog', r, "stream") = << >>
       /\ (req[r].pc = "awaitTeardown" /\ req'[r].pc # "awaitTeardown"
             /\ sessions[req[r].sid].exists) => req'[r].pc = "awaitIds"

\* The remote request of a regenerate request.
C11_RegenInv ==
  \A r \in ReqIds :
    req[r].kind = "regen" =>
      LET calls == CallsBy(r, "stream") IN
      \A i \in 1..Len(calls) :
        /\ calls[i].chatId = req[r].chatId
        /\ calls[i].chatId \notin Handles(CallsBy(r, "delete"))

\* C11: a regenerate request keeps the target message and removes every
\* message that followed it; when the conversation has a handle it requests
\* the teardown of that handle; it then mints a handle different from the old
\* one and from every handle used so far and persists it on the conversation
\* before its remote request is made, with that handle; and it does so whether
\* the teardown call returned or threw.
C11_RegenerateRebases == [][C11_RegenAct]_vars /\ []C11_RegenInv

C11_Witness ==
  \E r \in ReqIds :
    /\ req[r].kind = "regen"
    /\ hist[r].teardownFailed
    /\ Handles(CallsBy(r, "delete")) = {1}
    /\ Len(CallsBy(r, "stream")) = 1
    /\ CallsBy(r, "stream")[1].chatId = sessions["s1"].you_chat_id
    /\ sessions["s1"].you_chat_id # 1
    /\ Len(InSession(messages, "s1")) < 2 * ThreadTurns

\* The three-turn conversation with the question of turn 2 (message 3) edited.
EditedTurn2(content) == updateMessage(SeedMessages(ThreadTurns), 3, "s1", content)

\* C12: editing the question of turn 2 of the conversation with three complete
\* turns replaces the conversation's thread handle by a new, different handle,
\* and the generation that follows is given a turn-pair list of exactly one
\* pair (turn 1).
C12_EditRebases ==
  [][\A u \in Users, c \in EditContents :
       /\ (messages = SeedMessages(ThreadTurns) /\ EditMessage(u, "s1", 3, c)) =>
            /\ sessions'["s1"].you_chat_id # 0
            /\ sessions'["s1"].you_chat_id # sessions["s1"].you_chat_id
       /\ \A q \in Queries :
            (messages = EditedTurn2(c) /\ StartSend(u, "s1", q)) =>
              /\ Len(req'[nreq'].chatHistory) = 1
              /\ req'[nreq'].chatHistory[1] = Pair(<<SeedQ[1]>>, <<SeedA[1]>>)]_vars

\* The last message of conversation sid.
IsLast(msgs, mid, sid) ==
  LET h == getMessages(msgs, sid) IN h # << >> /\ h[Len(h)].id = mid

\* C13: deleting a message that is not the last of its conversation, in a
\* conversation that has a thread handle, requests the teardown of that handle
\* and leaves the conversation with a handle different from it.
C13_DeleteRebases ==
  [][\A u \in Users, s \in SessionIds, m \in MessageIdInputs :
       (DeleteMessage(u, s, m) /\ ~IsLast(messages, m, s)
          /\ getSessionYouChatId(sessions, s) # 0) =>
         /\ getSessionYouChatId(sessions', s) # getSessionYouChatId(sessions, s)
         /\ \E i \in 1..Len(remoteLog') :
              /\ i > Len(remoteLog)
              /\ remoteLog'[i].op = "delete"
              /\ remoteLog'[i].chatId = getSessionYouChatId(sessions, s)]_vars

\* C14: deleting a conversation removes all of its messages and, when the
\* conversation has a thread handle, requests the teardown of that handle.
C14_DeleteConversation ==
  [][\A u \in Users, s \in SessionIds :
       DeleteSession(u, s) =>
         /\ InSession(messages', s) = << >>
         /\ getSessionYouChatId(sessions, s) # 0 =>
              \E i \in 1..Len(remoteLog') :
                /\ i > Len(remoteLog)
                /\ remoteLog'[i].op = "delete"
                /\ remoteLog'[i].chatId = getSessionYouChatId(sessions, s)]_vars

\* C15: a fork of conversation A creates a conversation B whose thread handle
\* is null right after the fork, leaves A's row (its handle included) and A's
\* messages unchanged, and makes no call to the remote engine.
C15_ForkFrame ==
  [][\A u \in Users, s \in SessionIds, m \in MessageIdInputs :
       ForkSession(u, s, m) =>
         /\ \E new \in SessionIds \ {s} :
              /\ ~sessions[new].exists
              /\ sessions'[new].exists
              /\ getSessionYouChatId(sessions', new) = 0
              /\ \A o \in SessionIds \ {new} : sessions'[o] = sessions[o]
         /\ InSession(messages', s) = InSession(messages, s)
         /\ remoteLog' = remoteLog]_vars

C15_Witness ==
  /\ used.forks = 1
  /\ sessions["s2"].exists
  /\ sessions["s2"].you_chat_id = 0
  /\ sessions["s1"].you_chat_id = 1
  /\ InSession(messages, "s2") # << >>
  /\ InSession(messages, "s1") = SeedMessages(ForkTurns)

\* Roles and contents of a message list, in order.
Texts(rows) == [i \in 1..Len(rows) |-> [role |-> rows[i].role, content |-> rows[i].content]]

\* The messages of conversation sid from the first up to and including mid.
UpTo(msgs, mid, sid) ==
  LET h == getMessages(msgs, sid)
      k == CHOOSE i \in 1..Len(h) : h[i].id = mid
  IN SubSeq(h, 1, k)

\* C16: a fork of conversation A at message M gives the new conversation
\* exactly A's messages from the first up to and including M, in the same
\* order with the same roles and contents.
C16_ForkCopiesPrefix ==
  [][\A u \in Users, s \in SessionIds, m \in MessageIdInputs :
       ForkSession(u, s, m) =>
         \E new \in SessionIds \ {s} :
           /\ ~sessions[new].exists
           /\ sessions'[new].exists
           /\ Texts(getMessages(messages', new)) = Texts(UpTo(messages, m, s))]_vars

\* The call a step adds to the log of remote calls, if it adds one.
Added(c) == remoteLog' = Append(remoteLog, c)

\* C17: a start-generation request on a conversation with no thread handle
\* mints a handle no remote call has used, and persists it on the conversation
\* before any remote request of its own is made; its remote request carries
\* that handle; and when the conversation had no message before the request,
\* the request carries an empty turn-pair history and pastChatLength 0.
C17_LazyMint ==
  [][/\ \A u \in Users, s \in SessionIds, q \in Queries :
          (StartSend(u, s, q) /\ getSessionYouChatId(sessions, s) = 0) =>
            /\ getSessionYouChatId(sessions', s) # 0
            /\ getSessionYouChatId(sessions', s) = req'[nreq'].chatId
            /\ req'[nreq'].chatId \notin Handles(remoteLog)
            /\ \A o \in SessionIds \ {s} :
                 getSessionYouChatId(sessions, o) # req'[nreq'].chatId
            /\ CallsIn(remoteLog', nreq', "stream") = << >>
     /\ \A r \in ReqIds :
          (req[r].kind = "send" /\ req[r].pc = "awaitThinking"
             /\ req'[r].pc = "awaitUpstream") =>
            LET c == remoteLog'[Len(remoteLog')] IN
            /\ Added(c)
            /\ c.op = "stream" /\ c.by = r
            /\ c.chatId = req[r].chatId /\ c.chatId # 0
            /\ req[r].isFirstMessage => (c.chat = << >> /\ c.pastChatLength = 0)]_vars

C17_Witness ==
  \E r \in ReqIds :
    /\ budget.seed = 0
    /\ req[r].kind = "send" /\ req[r].isFirstMessage
    /\ Len(CallsBy(r, "stream")) >= 1
    /\ CallsBy(r, "stream")[1].chat = << >>
    /\ CallsBy(r, "stream")[1].pastChatLength = 0
    /\ CallsBy(r, "stream")[1].chatId = sessions[req[r].sid].you_chat_id
    /\ CallsBy(r, "stream")[1].chatId # 0

\* The history a generation request reads when it starts.
C18_HistoryAct ==
  /\ \A u \in Users, s \in SessionIds, q \in Queries :
       StartSend(u, s, q) =>
         req'[nreq'].chatHistory = buildChatHistory(getMessages(messages, s))
  /\ \A r \in ReqIds :
       /\ (req'[r].kind = "regen" /\ req[r].pc # "awaitIds" /\ req'[r].pc = "awaitIds") =>
            req'[r].chatHistory =
              buildChatHistory(getMessages(deleteMessage(messages', req'[r].asstMsgId,
                                                         req'[r].sid), req'[r].sid))
       /\ (req[r].pc = "awaitThinking" /\ req'[r].pc = "awaitUpstream") =>
            /\ Len(remoteLog') = Len(remoteLog) + 1
            /\ remoteLog'[Len(remoteLog')].by = r
            /\ remoteLog'[Len(remoteLog')].chat = req[r].chatHistory
            /\ remoteLog'[Len(remoteLog')].pastChatLength = Len(req[r].chatHistory)

\* The count sent with every remote request.
C18_CountInv ==
  \A i \in 1..Len(remoteLog) :
    remoteLog[i].op = "stream" => remoteLog[i].pastChatLength = Len(remoteLog[i].chat)

\* C18: the turn-pair history of a start-generation or regenerate request is
\* buildChatHistory of the conversation's messages as the request finds them
\* (for a regenerate: after its truncation), its remote request carries that
\* history, and the pastChatLength of every remote request equals the number
\* of pairs sent with it.
C18_PastChatLength == [][C18_HistoryAct]_vars /\ []C18_CountInv

C18_Witness ==
  \E i \in 1..Len(remoteLog) :
    /\ remoteLog[i].op = "stream"
    /\ remoteLog[i].pastChatLength = ThreadTurns
    /\ Len(remoteLog[i].chat) = ThreadTurns
    /\ req[remoteLog[i].by].kind = "send"

\* The list buildChatHistory is applied to.
History == getMessages(messages, "s1")

\* Contents joined by a blank line, in order.
RECURSIVE JoinContents(_)
JoinContents(rows) ==
  IF Len(rows) = 1 THEN rows[1].content
  ELSE JoinContents(SubSeq(rows, 1, Len(rows) - 1)) \o <<"\n\n">> \o rows[Len(rows)].content

AllUsers(h, lo, hi) == \A i \in lo..hi : h[i].role = "user"

\* Answers of h that close a question: assistant messages directly after a user message.
Answered(h) == {j \in 2..Len(h) : h[j].role = "assistant" /\ h[j - 1].role = "user"}

\* C19: for every message list obtained from a conversation by deletions,
\* every pair of buildChatHistory has a non-empty question that is the join of
\* the contents of user messages only, and an answer that is the content of an
\* assistant message following them; and the number of pairs is the number of
\* assistant messages with at least one user message between them and the
\* previous assistant message (or the start of the list).
C19_PairsWellFormed ==
  LET h == History
      pairs == buildChatHistory(h)
  IN /\ \A k \in 1..Len(pairs) :
          /\ pairs[k].question # << >>
          /\ \E j \in 2..Len(h), lo \in 1..Len(h) :
               /\ lo < j
               /\ AllUsers(h, lo, j - 1)
               /\ h[j].role = "assistant"
               /\ pairs[k].question = JoinContents(SubSeq(h, lo, j - 1))
               /\ pairs[k].answer = h[j].content
     /\ Len(pairs) = Cardinality(Answered(h))

C19_Witness ==
  /\ used.edits >= 1
  /\ [i \in 1..Len(History) |-> History[i].role]
       = <<"assistant", "user", "user", "assistant">>
  /\ Len(buildChatHistory(History)) = 1

\* The reference: up to the first assistant message, the user messages before
\* it form one question, closed by it; an assistant message with no user
\* message before it is dropped; what follows is treated the same way; user
\* messages with no assistant message after them give nothing.
RECURSIVE Reference(_)
Reference(h) ==
  IF \A i \in 1..Len(h) : h[i].role = "user" THEN << >>
  ELSE LET j == CHOOSE i \in 1..Len(h) :
                  h[i].role = "assistant" /\ AllUsers(h, 1, i - 1)
           rest == Reference(SubSeq(h, j + 1, Len(h)))
       IN IF j = 1 THEN rest
          ELSE <<[question |-> JoinContents(SubSeq(h, 1, j - 1)),
                  answer |-> h[j].content]>> \o rest

\* C20: buildChatHistory equals the reference on every message list:
\* consecutive user messages form one question, joined in order; an assistant
\* message after a pending question closes one pair with its content as the
\* answer; an assistant message with no pending question is dropped; a
\* trailing unanswered question is not returned.
C20_MatchesReference == buildChatHistory(History) = Reference(History)

C20_Witness ==
  /\ used.edits = 1
  /\ Len(History) = 4
  /\ buildChatHistory(History) =
       <<[question |-> <<"x1", "\n\n", "x3">>, answer |-> <<"y4">>]>>
  /\ History[4].id = 5

\* The messages a list of pairs stands for: for each pair a user message with
\* its question, then an assistant message with its answer, one pair per second.
Flatten(pairs) ==
  [i \in 1..(2 * Len(pairs)) |->
     IF i % 2 = 1
     THEN Row(i, "s1", "user", pairs[(i + 1) \div 2].question, (i - 1) \div 2, "complete")
     ELSE Row(i, "s1", "assistant", pairs[i \div 2].answer, (i - 1) \div 2, "complete")]

\* The places of h, in increasing order, whose answers the pairs carry.
InOrderOfAnswers(pairs, h) ==
  \E f \in [1..Len(pairs) -> 1..Len(h)] :
    /\ \A k \in 1..Len(pairs) :
          /\ h[f[k]].role = "assistant"
          /\ pairs[k].answer = h[f[k]].content
          /\ f[k] > 1 /\ h[f[k] - 1].role = "user"
          /\ SubSeq(pairs[k].question,
                    Len(pairs[k].question) - Len(h[f[k] - 1].content) + 1,
                    Len(pairs[k].question)) = h[f[k] - 1].content
    /\ \A j, k \in 1..Len(pairs) : j < k => f[j] < f[k]

\* C21: buildChatHistory preserves order and is idempotent: the pairs it
\* returns appear in the order of their answers in the message list, and
\* applying it to the list obtained by flattening its result back into
\* alternating user and assistant messages returns the same pairs (and that
\* flattened list is left as it is by a further round).
C21_OrderedIdempotent ==
  LET pairs == buildChatHistory(History)
      again == buildChatHistory(Flatten(pairs))
  IN /\ InOrderOfAnswers(pairs, History)
     /\ again = pairs
     /\ Flatten(again) = Flatten(pairs)

C21_Witness ==
  /\ used.edits >= 1
  /\ Len(History) = 4
  /\ Len(buildChatHistory(History)) = 2
  /\ Texts(Flatten(buildChatHistory(History))) = Texts(History)
  /\ History[1].id = 2

\* The poll of the assistant message of request r by the owner of the
\* conversation, against the tables sess and msgs.
OwnerPoll(sess, msgs, r) ==
  PollMessage(sess, msgs, req[r].user, req[r].sid, req[r].asstMsgId)

\* What a step does to the reply of the poll: a snapshot write or the terminal
\* write of the attempt is what the next poll returns, a complete message
\* stays complete, and the reply changes only with a write to the message.
C22_PollAct ==
  \A r \in ReqIds :
    req[r].asstMsgId # 0 =>
      LET p == OwnerPoll(sessions, messages, r)
          q == OwnerPoll(sessions', messages', r)
          snapshot == hist'[r].snapshots > hist[r].snapshots
          terminal == Len(hist'[r].completions) > Len(hist[r].completions)
          edit == used'.edits > used.edits
      IN (p.status = 200 /\ q.status = 200) =>
           /\ snapshot =>
                 q.body.content = req'[r].fullResponse /\ q.body.status = "streaming"
           /\ terminal =>
                 q.body.content = Last(hist'[r].completions) /\ q.body.status = "complete"
           /\ (~snapshot /\ ~terminal /\ ~edit) => q = p
           /\ p.body.status = "complete" => q.body.status = "complete"
           /\ (p.body.status = "complete" /\ q.body.content # p.body.content) =>
                 edit /\ q.body.content \in EditContents

\* A poll of the message an attempt created, while the attempt has not ended.
C22_PollInv ==
  \A r \in ReqIds :
    LET p == OwnerPoll(sessions, messages, r) IN
    (req[r].asstMsgId # 0 /\ p.status = 200) =>
      /\ p.body.id = req[r].asstMsgId /\ p.body.role = "assistant"
      /\ hist[r].completions = << >> => p.body.status = "streaming"
      /\ hist[r].completions # << >> => p.body.status = "complete"

Persisted(r) == MessageById(messages, req[r].asstMsgId).content

\* C26: at every instant while an attempt is streaming, every token it
\* received more than one save interval earlier is contained in the persisted
\* content of its message.
C26_CrashLossBounded ==
  \A r \in ReqIds :
    (req[r].pc = "awaitUpstream" /\ ~req[r].aborted
       /\ HasMessageId(messages, req[r].asstMsgId)) =>
      \A k \in 1..Len(hist[r].tokenTimes) :
        DateNow - hist[r].tokenTimes[k] > SAVE_INTERVAL_MS =>
          /\ Len(Persisted(r)) >= k
          /\ SubSeq(Persisted(r), 1, k) = SubSeq(req[r].fullResponse, 1, k)

\* A step that takes a snapshot write is the arrival of a token at the loop
\* of a streaming attempt, and writes the text accumulated with that token.
C27_SnapshotAct ==
  \A r \in ReqIds :
    hist'[r].snapshots # hist[r].snapshots =>
      /\ hist'[r].snapshots = hist[r].snapshots + 1
      /\ req[r].pc = "awaitUpstream" /\ req'[r].pc = "awaitUpstream"
      /\ hist'[r].yielded = Append(hist[r].yielded, TokenAt(Len(hist[r].yielded) + 1))
      /\ hist'[r].completions = << >>
      /\ req'[r].fullResponse = Append(req[r].fullResponse, Last(hist'[r].yielded))
      /\ HasMessageId(messages, req[r].asstMsgId) =>
            MessageById(messages', req[r].asstMsgId).content = req'[r].fullResponse

\* The times of the start of the loop and of the snapshot writes of an attempt.
C27_SpacingInv ==
  \A r \in ReqIds :
    LET t == hist[r].saveTimes IN
    /\ hist[r].loopEntered => Len(t) = hist[r].snapshots + 1
    /\ \A k \in 1..(Len(t) - 1) : t[k + 1] - t[k] > SAVE_INTERVAL_MS

\* C27: snapshot writes happen only on token events, and two consecutive
\* snapshot writes of an attempt, as well as the start of the attempt and its
\* first snapshot write, are more than one save interval apart.
C27_SnapshotSpacing == [][C27_SnapshotAct]_vars /\ []C27_SpacingInv

\* A token arrived exactly one interval after the start and was not written;
\* the next two were.
C27_Witness ==
  \E r \in ReqIds :
    /\ hist[r].snapshots = 2
    /\ hist[r].tokenTimes[1] = SAVE_INTERVAL_MS
    /\ hist[r].saveTimes[1] = 0
    /\ hist[r].saveTimes[2] > SAVE_INTERVAL_MS
    /\ Len(hist[r].yielded) = 3
    /\ req[r].pc = "awaitUpstream"

\* Rows a step inserts, rows it keeps, and the row of a generation before the
\* first upstream event.
C28_StatusAct ==
  /\ \A i \in 1..Len(messages') :
        LET row == messages'[i] IN
        IF ~HasMessageId(messages, row.id)
        THEN /\ row.role = "user" => row.status = "complete"
             /\ \A r \in ReqIds :
                   (req'[r].asstMsgId = row.id) =>
                     /\ row.role = "assistant"
                     /\ row.status = "streaming" /\ row.content = << >>
                     /\ hist'[r].events = 0 /\ ~hist'[r].loopEntered
        ELSE MessageById(messages, row.id).status = "complete" => row.status = "complete"
  /\ \A r \in ReqIds :
        (/\ req[r].asstMsgId # 0
         /\ HasMessageId(messages, req[r].asstMsgId)
         /\ HasMessageId(messages', req[r].asstMsgId)
         /\ hist'[r].events = 0 /\ hist'[r].completions = << >>
         /\ used'.edits = used.edits) =>
          /\ MessageById(messages', req[r].asstMsgId) = MessageById(messages, req[r].asstMsgId)
          /\ MessageById(messages, req[r].asstMsgId).status = "streaming"

C28_StatusInv ==
  \A i \in 1..Len(messages) :
    /\ messages[i].status \in {"streaming", "complete"}
    /\ messages[i].role = "user" => messages[i].status = "complete"
    /\ messages[i].status = "streaming" =>
          \E r \in ReqIds : req[r].asstMsgId = messages[i].id /\ hist[r].completions = << >>

\* C28: every stored message has status streaming or complete; a user message
\* is complete from its creation; the assistant message a generation request
\* creates is streaming with empty content, and is created before the request
\* consumes any upstream event (no step of the request changes it until then);
\* and a message that is complete is never streaming again.
C28_MessageStatus == [][C28_StatusAct]_vars /\ []C28_StatusInv

C28_Witness ==
  \E r \in ReqIds :
    /\ req[r].kind = "regen"
    /\ hist[r].events >= 1
    /\ HasMessageId(messages, req[r].asstMsgId)
    /\ MessageById(messages, req[r].asstMsgId).status = "complete"
    /\ \E i \in 1..Len(messages) : messages[i].role = "user"

\* The steps of a send after its title call: the call returns or throws, and
\* the cleanup of the title thread returns or throws.
C29_TitleAct ==
  \A r \in ReqIds :
    /\ (req[r].pc = "awaitTitle" /\ req'[r].pc # "awaitTitle") =>
          /\ req'[r].pc = "awaitTitleCleanup"
          /\ remoteLog' = Append(remoteLog, RemoteDelete(r, req[r].titleChatId))
          /\ req[r].titleChatId \notin {0, req[r].chatId, sessions[req[r].sid].you_chat_id}
          /\ messages' = messages
          /\ req'[r].generatedTitle = "undefined" => sessions' = sessions
    /\ (req[r].pc = "awaitTitleCleanup" /\ req'[r].pc # "awaitTitleCleanup") =>
          /\ req'[r].pc = "awaitDone"
          /\ Len(req'[r].sse) = Len(req[r].sse) + 1
          /\ Last(req'[r].sse).ev = Ev("done", 0, req[r].asstMsgId, req[r].generatedTitle)
          /\ Last(req'[r].sse).ok = req[r].open
          /\ messages' = messages /\ remoteLog' = remoteLog

\* The calls a send has made for its title, and its message after them.
C29_TitleInv ==
  \A r \in ReqIds :
    req[r].kind = "send" =>
      LET deletes == CallsBy(r, "delete")
          m == req[r].asstMsgId
      IN /\ Len(deletes) <= 1
         /\ Len(deletes) = 1 <=>
               (req[r].titleChatId # 0 /\ req[r].pc # "awaitTitle")
         /\ \A i \in 1..Len(deletes) :
               deletes[i].chatId = req[r].titleChatId /\ deletes[i].chatId # req[r].chatId
         /\ (req[r].titleChatId # 0 /\ HasMessageId(messages, m) /\ used.edits = 0) =>
               /\ MessageById(messages, m).status = "complete"
               /\ MessageById(messages, m).content = hist[r].completions[1]
               /\ hist[r].completions[1] = hist[r].yieldedLive

\* C29: a title call that fails does not fail the generation: the teardown of
\* the title thread is requested, the done event is written next, and the
\* assistant message stays complete with the full text; whether the title call
\* succeeds or fails, a send requests the teardown of its title thread exactly
\* once, and never the teardown of the thread of the conversation.
C29_TitleFailureNonFatal == [][C29_TitleAct]_vars /\ []C29_TitleInv

C29_Witness ==
  \E r \in ReqIds :
    /\ req[r].pc = "exited"
    /\ req[r].titleChatId # 0
    /\ req[r].generatedTitle = "undefined"
    /\ Last(Delivered(req[r])).ev.type = "done"
    /\ Len(hist[r].yielded) >= 2
    /\ MessageById(messages, req[r].asstMsgId).content = hist[r].yielded
    /\ CallsBy(r, "delete") = <<RemoteDelete(r, req[r].titleChatId)>>

\* The assistant message the hook holds the id of is stored and complete.
HookMessageComplete ==
  /\ HasMessageId(messages, client.hook.assistantMsgId)
  /\ MessageById(messages, client.hook.assistantMsgId).status = "complete"

\* C23: when the push channel of a send is interrupted before the terminal
\* event and the client holds the assistant message id, the client falls back
\* to polling and, once the attempt has reached complete, reports completion
\* as for a done event, the content it shows being the persisted final
\* content: a client that has left the fallback with the message complete has
\* reported it done with that content.
C23_FallbackReportsCompletion ==
  LET h == client.hook IN
  (h.polled /\ h.pc = "finished" /\ HookMessageComplete) =>
    /\ h.doneCalls # << >>
    /\ Last(h.doneCalls) =
         [id |-> h.assistantMsgId,
          content |-> MessageById(messages, h.assistantMsgId).content]

\* C25: the fallback poller gives up after a bounded poll duration: a client
\* that is polling is eventually not polling any more.
C25_PollerGivesUp == [](client.hook.pc = "polling" => <>(client.hook.pc # "polling"))

\* The reply a poll of the page poller gets in the current state.
PageReply ==
  PollMessage(sessions, messages, client.poller.user, client.poller.sessionId,
              client.poller.messageId)

\* What one poll of the running poller does.
C24_PollAct ==
  LET p == client.poller
      q == client'.poller
  IN (p.pc = "on" /\ q # p) =>
       /\ PageReply.status = 200
       /\ q.local.content = PageReply.body.content
       /\ PageReply.body.status = "complete" <=> q.pc = "done"
       /\ q.pc = "done" => q.local.status = "complete"
       /\ q.pc = "gaveUp" <=>
             /\ PageReply.body.status = "streaming"
             /\ PageReply.body.content = p.lastContent
             /\ p.staleCount = MAX_STALE - 1
       /\ q.pc = "gaveUp" => q.local.status = "complete"
       /\ q.pc = "on" =>
             /\ q.local.status = "streaming"
             /\ q.staleCount = IF PageReply.body.content = p.lastContent
                                THEN p.staleCount + 1 ELSE 0
             /\ q.lastContent = PageReply.body.content

\* The counter of the running poller, and a poller that has stopped.
C24_PollInv ==
  LET p == client.poller IN
  /\ p.pc = "on" => p.staleCount < MAX_STALE
  /\ p.pc = "gaveUp" => p.staleCount = MAX_STALE /\ p.local.status = "complete"
  /\ p.pc = "done" => p.local.status = "complete" /\ p.staleCount < MAX_STALE

\* C24: the page-load poller stops with the poll that returns complete, and
\* for a message that stays streaming it gives up with the 120th consecutive
\* poll that finds the content unchanged (the first poll is compared with the
\* empty text), marking the message complete locally; until then it goes on.
C24_PagePollerStops == [][C24_PollAct]_vars /\ []C24_PollInv

C24_Witness ==
  /\ client.poller.pc = "gaveUp"
  /\ client.poller.lastContent # << >>
  /\ client.poller.local = [content |-> client.poller.lastContent, status |-> "complete"]
  /\ PageReply.status = 200 /\ PageReply.body.status = "streaming"

\* The reasons for which a request is turned down: no authenticated user, no
\* stored credentials, a missing parameter, a conversation that is not the
\* user's, a target message that is not in the conversation.
NotAllowed(u, s) ==
  \/ u = ""
  \/ u \notin WithCredentials
  \/ s = ""
  \/ s \notin SessionIds
  \/ ~sessions[s].exists
  \/ sessions[s].owner # u

NoTarget(s, m) == \A i \in 1..Len(messages) : ~(messages[i].id = m /\ messages[i].sid = s)

\* An error reply is given for these reasons and for no other.
C30_ReplyInv ==
  /\ \A u \in UserInputs, s \in SessionInputs, q \in QueryInputs :
        SendStatus(u, s, q) # 200 <=> (NotAllowed(u, s) \/ q = << >>)
  /\ \A u \in UserInputs, s \in SessionInputs, m \in MessageIdInputs :
        RegenStatus(u, s, m) # 200 <=> (NotAllowed(u, s) \/ m = 0 \/ NoTarget(s, m))

\* A step that gives an error reply, and a step that accepts a request.
C30_RejectAct ==
  /\ client'.reply # client.reply =>
       /\ client'.reply.status \in {401, 403, 400, 404}
       /\ UNCHANGED <<messages, sessions, activeStreams, req, nreq, remoteLog,
                      nextId, nextUuid>>
  /\ nreq' # nreq =>
       LET rec == req'[nreq'] IN
       /\ ~NotAllowed(rec.user, rec.sid)
       /\ client'.reply = client.reply
       /\ rec.kind = "send" => rec.query # << >>
       /\ rec.kind = "regen" =>
             \A m \in MessageIdInputs :
               (m = 0 \/ NoTarget(rec.sid, m)) => ~StartRegen(rec.user, rec.sid, m)

\* C30: a start-generation or regenerate request that is turned down for one
\* of these reasons is answered with an error reply and creates no message,
\* deletes no message, leaves the thread handles and the stream registry as
\* they are and makes no remote call; no request with such an input is ever
\* accepted, and an error reply is given for these reasons only.
C30_RejectedChangesNothing == [][C30_RejectAct]_vars /\ []C30_ReplyInv

\* The regeneration of a message that has been deleted was turned down.
C30_Witness ==
  /\ client.reply = [op |-> "regen", status |-> 404]
  /\ sessions["s1"].exists
  /\ used.edits = 1
  /\ Len(messages) = 2 * ThreadTurns - 1
  /\ nreq = 0

\* ----------------------------------------------------------- C31
\* The attempt whose step wrote the content of message id: a snapshot or the
\* terminal write of the request that created the message.
WrittenByAttempt(id) ==
  \E r \in ReqIds :
    /\ req[r].asstMsgId = id
    /\ \/ hist'[r].snapshots # hist[r].snapshots
       \/ hist'[r].completions # hist[r].completions

\* C31: a step that changes the content of a message that is in streaming
\* status is a write of the message's own generation attempt (a snapshot or
\* the terminal write); no other operation of the server - the edit-message
\* route in particular - changes the content of a streaming message.
C31_SoleWriter ==
  [][\A i \in 1..Len(messages) :
       (/\ messages[i].status = "streaming"
        /\ HasMessageId(messages', messages[i].id)
        /\ MessageById(messages', messages[i].id).content # messages[i].content)
         => WrittenByAttempt(messages[i].id)]_vars

\* ----------------------------------------------------------- C32
\* Ids of a message list.
IdsOf(rows) == {rows[i].id : i \in 1..Len(rows)}

\* C32: the truncation a regenerate request at message M performs keeps M and
\* every message that precedes M in the order of the conversation and deletes
\* exactly the messages that follow M, also when messages created before M
\* carry M's creation timestamp.
C32_TruncatesAfter ==
  [][\A u \in Users, s \in SessionIds, m \in MessageIdInputs :
       StartRegen(u, s, m) =>
         IdsOf(InSession(messages', s)) \ {nextId} = IdsOf(UpTo(messages, m, s))]_vars

\* ----------------------------------------------------------- C33
\* The event a frame of the upstream stands for.
EventOf(f) ==
  CASE f \in {"a", "b"} -> TokenEvent(f)
    [] f = "thinking" -> ThinkingEvent("Thinking")
    [] OTHER -> DoneEvent

\* The events of a frame sequence: one per frame, up to and including done.
RECURSIVE Expected(_)
Expected(frames) ==
  IF frames = << >> THEN << >>
  ELSE IF Head(frames) = "done" THEN <<DoneEvent>>
  ELSE <<EventOf(Head(frames))>> \o Expected(Tail(frames))

\* C33: when streamChat has read the whole response, the events it has
\* yielded are those of the upstream's line sequence - one token event per
\* youChatToken data line, nothing after done - however the response was
\* split into read chunks, also when an event line and its data line arrive
\* in different chunks.
C33_ChunkIndependent ==
  upstream.pc \in {"ended", "returned"} => upstream.out = Expected(upstream.frames)

\* ----------------------------------------------------------- C34
\* C34: while an attempt is consuming upstream events and no stop has been
\* processed, the stream registry maps the attempt's conversation to the
\* attempt's own controller.
C34_RegistryOwnsAttempt ==
  \A r \in ReqIds :
    (req[r].pc = "awaitUpstream" /\ used.stops = 0) => activeStreams[req[r].sid] = r

\* ----------------------------------------------------------- C35
\* The client of request r has received the terminal event (done or error).
TerminalReceived(r) ==
  \E i \in 1..Len(Delivered(req[r])) : Terminal(Delivered(req[r])[i].ev.type)

\* The reply to a poll of the assistant message of request r by its user.
PollOf(r) == PollMessage(sessions, messages, req[r].user, req[r].sid, req[r].asstMsgId)

\* C35 as stated: once the client of a request has received done or error, a
\* poll of the request's assistant message returns the message with status
\* complete.
C35_PollAfterTerminalComplete ==
  \A r \in ReqIds :
    TerminalReceived(r) => PollOf(r).status = 200 /\ PollOf(r).body.status = "complete"

\* C35: once the client of a request has received done or error, the terminal
\* write of the request's attempt has been made, and a poll of its assistant
\* message returns the message with status complete unless the message or its
\* conversation has been deleted, in which case it returns 404.
C35_TerminalAfterWrite ==
  \A r \in ReqIds :
    TerminalReceived(r) =>
      /\ Len(hist[r].completions) = 1
      /\ IF HasMessage(messages, req[r].asstMsgId, req[r].sid)
            /\ sessions[req[r].sid].exists
         THEN PollOf(r).status = 200 /\ PollOf(r).body.status = "complete"
         ELSE PollOf(r).status = 404

C35_Witness ==
  \E r \in ReqIds :
    /\ \E i \in 1..Len(Delivered(req[r])) : Delivered(req[r])[i].ev.type = "error"
    /\ hist[r].yielded # << >>
    /\ PollOf(r).status = 200
    /\ PollOf(r).body.status = "complete"
    /\ PollOf(r).body.content = hist[r].yielded

\* ----------------------------------------------------------- C36
\* C36: a stop request by user u with the id of a conversation that another
\* user owns leaves the attempts (their cancellation signals included) and
\* the stream registry as they are.
C36_StopOwnConversationOnly ==
  [][\A u \in Users, s \in SessionIds :
       (Stop(u, s) /\ sessions[s].exists /\ sessions[s].owner # u) =>
         /\ activeStreams' = activeStreams
         /\ req' = req]_vars

\* ----------------------------------------------------------- C37
\* C37: a step in which the title generation of a request writes a title
\* writes it to a conversation that had no message before the request and
\* whose title is "untitled" when the write is made; a title the user has set
\* in the meantime is not overwritten.
C37_TitleOnlyOverDefault ==
  [][\A r \in ReqIds :
       (/\ req[r].pc = "awaitTitle"
        /\ req'[r].pc = "awaitTitleCleanup"
        /\ sessions'[req[r].sid].title # sessions[req[r].sid].title)
         => /\ req[r].isFirstMessage
            /\ sessions[req[r].sid].title = "untitled"]_vars

\* ----------------------------------------------------------- C38
\* Places in the log of remote calls at which a regenerate request asked for
\* the teardown of a thread handle.
Teardowns ==
  {i \in 1..Len(remoteLog) :
     remoteLog[i].op = "delete" /\ req[remoteLog[i].by].kind = "regen"}

\* C38: no completion request is made with a thread handle after a regenerate
\* has requested the teardown of that handle, and no attempt is consuming the
\* events of a completion request made with such a handle.
C38_NoUseAfterTeardown ==
  /\ \A i \in Teardowns : \A j \in (i + 1)..Len(remoteLog) :
       remoteLog[j].op = "stream" => remoteLog[j].chatId # remoteLog[i].chatId
  /\ \A r \in ReqIds :
       req[r].pc = "awaitUpstream" =>
         \A i \in Teardowns : remoteLog[i].chatId # req[r].chatId

DoneCalled == Len(client'.hook.doneCalls) > Len(client.hook.doneCalls)

\* C39: onDone is called at most once for a send, whether the done event was
\* read or the fallback was taken, and it is not called once stopGeneration
\* has aborted the controller of the send; after that the send ends without
\* any callback.
C39_DoneAct ==
  /\ DoneCalled => client.hook.doneCalls = << >> /\ client.hook.stop # "aborted"
  /\ client.hook.stop = "aborted" =>
       /\ client'.hook.doneCalls = client.hook.doneCalls
       /\ client'.hook.errors = client.hook.errors
       /\ client'.hook.fullContent = client.hook.fullContent

C39_DoneInv ==
  /\ Len(client.hook.doneCalls) <= 1
  /\ \A i \in 1..Len(client.hook.doneWhen) : client.hook.doneWhen[i] # "aborted"

C39_WitnessStopped ==
  /\ client.hook.stop = "aborted"
  /\ client.hook.pc = "finished"
  /\ client.hook.doneCalls = << >>
  /\ client.hook.assistantMsgId # 0

====
